---- MODULE Spec2Model ----
(***************************************************************************)
(* Out-of-band invitation manager (OutOfBandManager) of                    *)
(* aries_cloudagent/protocols/out_of_band/v1_0/manager.py: creation and    *)
(* receipt of invitations, the connection-reuse negotiation and the        *)
(* dispatch of an attached request.                                        *)
(***************************************************************************)
EXTENDS Integers, Sequences, FiniteSets, TLC

VARIABLES
    settings,   \* profile settings and injected collaborators of the agent
    conns,      \* connection store, in store order; connection id = index
    nextId,     \* source of fresh message ids and fresh signing keys
    routing,    \* keys known to the mediator / the multi-tenant manager
    outbox,     \* messages handed to the responder by the last step
    ret,        \* outcome of the last create_invitation call
    hret,       \* outcome of the last inbound-message handler call
    procs       \* receive_invitation invocations (one per slot)

vars == <<settings, conns, nextId, routing, outbox, ret, hret, procs>>

----------------------------------------------------------------------------
\* Bounds of the model.

\* Most connection records the store may hold.
MaxConns == 3
\* Most fresh ids (message ids, signing keys) handed out.
MaxIds == 3
\* Most create_invitation calls of one behaviour.
MaxCalls == 1
\* Concurrent receive_invitation invocations.
NumProcs == 2
MaxReceives == 2
MaxDuoCalls == 1

None == "none"

----------------------------------------------------------------------------
\* Error kinds (section 7 of the specification) of the errors the manager
\* raises.  Every kind but the last two is an OutOfBandManagerError.

ErrNone == "ok"
InvalidInvitationShape == "InvalidInvitationShape"
ConfigurationRejected == "ConfigurationRejected"
UnknownAttachmentType == "UnknownAttachmentType"
UnsupportedAttachmentType == "UnsupportedAttachmentType"
AutoRespondDisabled == "AutoRespondDisabled"
CannotAutoPresent == "CannotAutoPresent"
NoHandshakeProtocolAvailable == "NoHandshakeProtocolAvailable"
ReuseNegotiationFailed == "ReuseNegotiationFailed"
MalformedAttachment == "MalformedAttachment"
NoExistingConnection == "NoExistingConnection"
\* what V20PresManager.create_pres raises, not an OutOfBandManagerError
CreatePresError == "V20PresManager.create_pres error"
\* StorageNotFoundError leaving the manager uncaught.
StorageNotFound == "StorageNotFoundError"
\* AttributeError of a call on an absent (None) responder.
NoResponder == "AttributeError"

----------------------------------------------------------------------------
\* Keys.  A key is a verification key k in one of two text forms: raw
\* (base58, no ":" in it) or a did:key identifier (three ":"-separated parts).

RawKey(k) == [did |-> FALSE, k |-> k]

\* DIDKey.from_public_key_b58(key, ED25519).did
DidKeyOf(key) == [did |-> TRUE, k |-> key.k]

\* DIDKey.from_did(did).public_key_b58
RawKeyOf(key) == [did |-> FALSE, k |-> key.k]

\* key if len(key.split(":")) == 3 else DIDKey.from_public_key_b58(key).did
MutNormalizeNothing(key) == key

NormalizeRoutingKey(key) == IF key.did THEN key ELSE DidKeyOf(key)

MapSeq(f(_), s) == [i \in 1..Len(s) |-> f(s[i])]

----------------------------------------------------------------------------
\* Collaborators' data the manager reads.

\* Exchange records by id, per store.
V10CredStore == {"x1"}
V20CredStore == {"x2"}
V10PresStore == {"p1"}
V20PresStore == {"p2"}

\* Mediation records: the one a mediation id names, the profile's default
\* mediator, and the base wallet's default mediator of a multi-tenant agent.
MediationRecords ==
    [m1 |-> [mediation_id |-> "m1", routing_keys |-> <<RawKey(901)>>,
             endpoint |-> "ep_m1", connection_id |-> "mc1"],
     m0 |-> [mediation_id |-> "m0", routing_keys |-> <<DidKeyOf(RawKey(900))>>,
             endpoint |-> "ep_m0", connection_id |-> "mc0"],
     mb |-> [mediation_id |-> "mb", routing_keys |-> <<RawKey(902)>>,
             endpoint |-> "ep_mb", connection_id |-> "mcb"]]

\* The wallet's public DID, when it has one.
PublicDid == [did |-> "PUB", verkey |-> RawKey(990)]

\* mediation_record_if_id(profile, mediation_id, or_default): the id of the
\* record, None, or "raise" when the id names no record (StorageNotFoundError).
MediationRecordIfId(mediation_id, or_default, s) ==
    IF mediation_id = "unknown" THEN "raise"
    ELSE IF mediation_id = "m1" THEN "m1"
    ELSE IF or_default /\ s.default_mediator THEN "m0"
    ELSE None

----------------------------------------------------------------------------
\* create_invitation

\* not (hs_protos or attachments)
MutShapeAlwaysOk(hs_protos, attachments) == TRUE

ShapeOk(hs_protos, attachments) == hs_protos # <<>> \/ attachments # <<>>

\* "if metadata": a metadata argument counts only when it is a non-empty map.
MetadataGiven(metadata) == metadata.given /\ metadata.items # {}

\* The public-invitation flag checks, before any attachment is resolved.
MutPublicFlagsNoMultiCheck(a) ==
    IF a.public /\ MetadataGiven(a.metadata) THEN ConfigurationRejected
    ELSE ErrNone

MutPublicFlagsNoMetadataCheck(a) ==
    IF a.public /\ a.multi_use THEN ConfigurationRejected
    ELSE ErrNone

PublicFlagsError(a) ==
    IF a.public /\ a.multi_use THEN ConfigurationRejected
    ELSE IF a.public /\ MetadataGiven(a.metadata) THEN ConfigurationRejected
    ELSE ErrNone

\* One attachment reference {type, id}: the stores looked up, in order, with
\* what each lookup found.
MutLookupsV2First(atch) ==
    IF atch.type = "credential-offer"
    THEN IF atch.id \in V20CredStore THEN <<[store |-> "v2", found |-> TRUE]>>
         ELSE <<[store |-> "v2", found |-> FALSE],
                [store |-> "v1", found |-> atch.id \in V10CredStore]>>
    ELSE IF atch.type = "present-proof"
    THEN IF atch.id \in V20PresStore THEN <<[store |-> "v2", found |-> TRUE]>>
         ELSE <<[store |-> "v2", found |-> FALSE],
                [store |-> "v1", found |-> atch.id \in V10PresStore]>>
    ELSE <<>>

AttachmentLookups(atch) ==
    IF atch.type = "credential-offer"
    THEN IF atch.id \in V10CredStore THEN <<[store |-> "v1", found |-> TRUE]>>
         ELSE <<[store |-> "v1", found |-> FALSE],
                [store |-> "v2", found |-> atch.id \in V20CredStore]>>
    ELSE IF atch.type = "present-proof"
    THEN IF atch.id \in V10PresStore THEN <<[store |-> "v1", found |-> TRUE]>>
         ELSE <<[store |-> "v1", found |-> FALSE],
                [store |-> "v2", found |-> atch.id \in V20PresStore]>>
    ELSE <<>>

\* DIDCommPrefix.qualify_current(name) / DIDCommPrefix.unqualify(text)
Qualify(name) == <<"https://didcomm.org", name>>
Unqualify(q) == q[Len(q)]

\* InvitationMessage.wrap_message(<serialized offer or request>): an
\* attachment decorator whose content carries the qualified message type.
Wrap(type, id) ==
    [kind |-> "decorator", data |-> TRUE, type |-> Qualify(type), ref |-> id]

NoAttachment == [kind |-> None, data |-> FALSE, type |-> <<>>, ref |-> None]

MutResolveUnknownAsOffer(atch) ==
    IF atch.type = "present-proof"
    THEN IF atch.id \in V10PresStore THEN [err |-> ErrNone, att |-> Wrap("pres_v1", atch.id)]
         ELSE IF atch.id \in V20PresStore THEN [err |-> ErrNone, att |-> Wrap("pres_v2", atch.id)]
         ELSE [err |-> StorageNotFound, att |-> NoAttachment]
    ELSE IF atch.id \in V10CredStore THEN [err |-> ErrNone, att |-> Wrap("cred_v1", atch.id)]
         ELSE IF atch.id \in V20CredStore THEN [err |-> ErrNone, att |-> Wrap("cred_v2", atch.id)]
         ELSE [err |-> StorageNotFound, att |-> NoAttachment]

ResolveAttachment(atch) ==
    IF atch.type = "credential-offer"
    THEN IF atch.id \in V10CredStore THEN [err |-> ErrNone, att |-> Wrap("cred_v1", atch.id)]
         ELSE IF atch.id \in V20CredStore THEN [err |-> ErrNone, att |-> Wrap("cred_v2", atch.id)]
         ELSE [err |-> StorageNotFound, att |-> NoAttachment]
    ELSE IF atch.type = "present-proof"
    THEN IF atch.id \in V10PresStore THEN [err |-> ErrNone, att |-> Wrap("pres_v1", atch.id)]
         ELSE IF atch.id \in V20PresStore THEN [err |-> ErrNone, att |-> Wrap("pres_v2", atch.id)]
         ELSE [err |-> StorageNotFound, att |-> NoAttachment]
    ELSE [err |-> UnknownAttachmentType, att |-> NoAttachment]

\* The loop over the attachment references: it stops at the first reference
\* that does not resolve.
RECURSIVE ResolveAttachments(_)
ResolveAttachments(attachments) ==
    IF attachments = <<>> THEN [err |-> ErrNone, atts |-> <<>>, lookups |-> <<>>]
    ELSE LET r == ResolveAttachment(Head(attachments))
             l == <<AttachmentLookups(Head(attachments))>>
         IN  IF r.err # ErrNone THEN [err |-> r.err, atts |-> <<>>, lookups |-> l]
             ELSE LET rest == ResolveAttachments(Tail(attachments))
                  IN  [err |-> rest.err,
                       atts |-> IF rest.err = ErrNone THEN <<r.att>> \o rest.atts ELSE <<>>,
                       lookups |-> l \o rest.lookups]

\* The checks of the public path, made before anything is stored.
MutPublicPathNoConfigCheck(s) ==
    IF ~s.has_public_did THEN ConfigurationRejected ELSE ErrNone

PublicPathError(s) ==
    IF ~s.public_invites THEN ConfigurationRejected
    ELSE IF ~s.has_public_did THEN ConfigurationRejected
    ELSE ErrNone

\* The call gets as far as the loop over the attachment references.
CreateReachesAttachments(a, s) ==
    /\ MediationRecordIfId(a.mediation_id, TRUE, s) # "raise"
    /\ ShapeOk(a.hs_protos, a.attachments)
    /\ PublicFlagsError(a) = ErrNone

\* The error that ends the call before its first side effect, ErrNone if none.
CreateEarlyError(a, s) ==
    IF MediationRecordIfId(a.mediation_id, TRUE, s) = "raise" THEN StorageNotFound
    ELSE IF ~ShapeOk(a.hs_protos, a.attachments) THEN InvalidInvitationShape
    ELSE IF PublicFlagsError(a) # ErrNone THEN PublicFlagsError(a)
    ELSE IF ResolveAttachments(a.attachments).err # ErrNone
         THEN ResolveAttachments(a.attachments).err
    ELSE IF a.public THEN PublicPathError(s)
    ELSE ErrNone

\* bool(auto_accept or (auto_accept is None and debug.auto_accept_requests))
AcceptOf(auto_accept, s) ==
    IF auto_accept = "true" \/ (auto_accept = None /\ s.auto_accept_requests)
    THEN "auto" ELSE "manual"

\* Connection metadata: the two reuse keys (0 / None when absent), the
\* mediation id the invitation was created with, and the caller's own keys.
NoMeta == [reuse_msg_id |-> 0, reuse_msg_state |-> None,
           mediation |-> None, user |-> {}]

\* ConnRecord(...) as create_invitation builds it.
NewInvitationConn(key, msg_id, mode, accept, protocol) ==
    [state |-> "invitation", their_role |-> "requester",
     invitation_key |-> key, invitation_msg_id |-> msg_id,
     invitation_mode |-> mode, accept |-> accept,
     connection_protocol |-> protocol,
     their_public_did |-> None, their_did |-> None,
     meta |-> NoMeta]

\* hs_protos[0].name if hs_protos else None
ConnectionProtocol(hs_protos) == IF hs_protos # <<>> THEN hs_protos[1] ELSE None

MutInvitationModeOnce(multi_use) == "once"

\* INVITATION_MODE_MULTI if multi_use else INVITATION_MODE_ONCE
InvitationMode(multi_use) == IF multi_use THEN "multi" ELSE "once"

\* Routing of a pairwise invitation: the base-wallet mediator first, the
\* mediation record on top; every routing key normalized to did:key.
MutRoutingMediatorFirst(a, s, med) ==
    LET base == s.multitenant /\ s.base_mediator
        k0 == IF base THEN MediationRecords.mb.routing_keys ELSE <<>>
        e1 == IF base THEN MediationRecords.mb.endpoint
              ELSE IF a.my_endpoint # None THEN a.my_endpoint ELSE "ep_default"
        k1 == IF med # None THEN MediationRecords[med].routing_keys \o k0 ELSE k0
        e2 == IF med # None THEN MediationRecords[med].endpoint ELSE e1
    IN  [endpoint |-> e2, routing_keys |-> MapSeq(NormalizeRoutingKey, k1)]

ResolveRouting(a, s, med) ==
    LET base == s.multitenant /\ s.base_mediator
        e0 == IF a.my_endpoint # None THEN a.my_endpoint ELSE "ep_default"
        k0 == IF base THEN MediationRecords.mb.routing_keys ELSE <<>>
        e1 == IF base THEN MediationRecords.mb.endpoint ELSE e0
        k1 == IF med # None THEN k0 \o MediationRecords[med].routing_keys ELSE k0
        e2 == IF med # None THEN MediationRecords[med].endpoint ELSE e1
    IN  [endpoint |-> e2, routing_keys |-> MapSeq(NormalizeRoutingKey, k1)]

\* InvitationRecord(state=STATE_INITIAL, ...): returned, never stored.
InvitationRecord(invi_msg, url) ==
    [state |-> "initial", invi_msg_id |-> invi_msg.id,
     invitation |-> invi_msg, invitation_url |-> url]

\* InvitationMessage.to_url: the encoded invitation behind a base URL.
ToUrl(invi_msg, endpoint) == <<"url", endpoint, invi_msg.id>>

\* A service entry of an invitation: a bare DID, or an inline block.
\* A DID reference is the sequence of the ":"-separated parts of its text.
DidService(did) ==
    [kind |-> "did", did |-> <<"did", "sov", did>>, recipient_keys |-> <<>>,
     routing_keys |-> <<>>, endpoint |-> None]
InlineService(recipient_keys, routing_keys, endpoint) ==
    [kind |-> "inline", did |-> <<>>, recipient_keys |-> recipient_keys,
     routing_keys |-> routing_keys, endpoint |-> endpoint]

InvitationMessage(id, hs, atts, services) ==
    [id |-> id, handshake_protocols |-> hs, requests_attach |-> atts,
     services |-> services]

NoInvitationRecord ==
    [state |-> None, invi_msg_id |-> 0,
     invitation |-> InvitationMessage(0, <<>>, <<>>, <<>>),
     invitation_url |-> <<>>]

NoRouting == [mediator |-> {}, tenant |-> {}]

NoHandlerCall ==
    [op |-> None, conn |-> 0, thid |-> 0, pthid |-> 0, sender |-> None,
     err |-> ErrNone, pc |-> "idle"]

\* A handler call that is between two of its awaits stays as it is while
\* other tasks run; the outcome of a finished call is kept for one step.
Pending(h) == IF h.pc = "idle" THEN NoHandlerCall ELSE h

\* The part of the call that follows the checks: what it stores, registers,
\* sends and returns, given the fresh id n (message id and signing key).
CreateFailed(err) ==
    [err |-> err, stored |-> <<>>, mediator |-> {}, tenant |-> {},
     sent |-> <<>>, rec |-> NoInvitationRecord]

CreatePublic(a, s, n) ==
    LET hs == MapSeq(Qualify, a.hs_protos)
        invi_msg == InvitationMessage(n, hs, ResolveAttachments(a.attachments).atts,
                                      <<DidService(PublicDid.did)>>)
        conn_rec == NewInvitationConn(PublicDid.verkey, n, "once",
                                      AcceptOf(a.auto_accept, s),
                                      ConnectionProtocol(a.hs_protos))
    IN  [err |-> ErrNone, stored |-> <<conn_rec>>, mediator |-> {},
         tenant |-> IF s.multitenant THEN {PublicDid.verkey} ELSE {},
         sent |-> <<>>,
         rec |-> InvitationRecord(invi_msg, ToUrl(invi_msg, "ep_public"))]

CreatePairwise(a, s, n) ==
    LET med == MediationRecordIfId(a.mediation_id, TRUE, s)
        key == RawKey(n)
        base == s.multitenant /\ s.base_mediator
        \* keylist_updates is dropped when the base wallet mediates
        keylist_updates == IF base THEN <<>> ELSE <<key>>
        route == ResolveRouting(a, s, med)
        conn0 == NewInvitationConn(key, n, InvitationMode(a.multi_use),
                                   AcceptOf(a.auto_accept, s),
                                   ConnectionProtocol(a.hs_protos))
        conn1 == IF med # None THEN [conn0 EXCEPT !.meta.mediation = med] ELSE conn0
        conn2 == IF MetadataGiven(a.metadata)
                 THEN [conn1 EXCEPT !.meta.user = a.metadata.items] ELSE conn1
        invi_msg == InvitationMessage(n, MapSeq(Qualify, a.hs_protos),
                        ResolveAttachments(a.attachments).atts,
                        <<InlineService(<<DidKeyOf(key)>>, route.routing_keys,
                                        route.endpoint)>>)
        tenant == IF s.multitenant THEN {key} ELSE {}
        sending == med # None /\ keylist_updates # <<>>
    IN  IF sending /\ ~s.responder
        THEN \* responder.send on an absent responder, after the record and
             \* its mediation metadata were stored
             [err |-> NoResponder, stored |-> <<conn1>>, mediator |-> {},
              tenant |-> tenant, sent |-> <<>>, rec |-> NoInvitationRecord]
        ELSE [err |-> ErrNone, stored |-> <<conn2>>,
              mediator |-> IF sending THEN {key} ELSE {},
              tenant |-> tenant,
              sent |-> IF sending
                       THEN <<[type |-> "keylist-update", thid |-> 0, pthid |-> 0,
                               to |-> MediationRecords[med].connection_id]>>
                       ELSE <<>>,
              rec |-> InvitationRecord(invi_msg, ToUrl(invi_msg, None))]

CreateOutcome(a, s, n) ==
    IF CreateEarlyError(a, s) # ErrNone THEN CreateFailed(CreateEarlyError(a, s))
    ELSE IF a.public THEN CreatePublic(a, s, n)
    ELSE CreatePairwise(a, s, n)

\* The call needs a fresh id and room in the store only if it gets that far.
CreateInvitation(a) ==
    /\ ret.calls < MaxCalls
    /\ CreateEarlyError(a, settings) = ErrNone
            => (nextId <= MaxIds /\ Len(conns) < MaxConns)
    /\ LET o == CreateOutcome(a, settings, nextId)
       IN  /\ conns' = conns \o o.stored
           /\ nextId' = IF CreateEarlyError(a, settings) = ErrNone
                         THEN nextId + 1 ELSE nextId
           /\ routing' = [mediator |-> routing.mediator \cup o.mediator,
                          tenant |-> routing.tenant \cup o.tenant]
           /\ outbox' = o.sent
           /\ ret' = [args |-> a, err |-> o.err, rec |-> o.rec,
                      conn_id |-> IF o.stored = <<>> THEN 0 ELSE Len(conns) + 1,
                      lookups |-> IF CreateReachesAttachments(a, settings)
                                  THEN ResolveAttachments(a.attachments).lookups
                                  ELSE <<>>,
                      calls |-> ret.calls + 1]
    /\ hret' = Pending(hret)
    /\ UNCHANGED <<settings, procs>>

----------------------------------------------------------------------------
\* Arguments and settings create_invitation is exercised with.

NoMetadata == [given |-> FALSE, items |-> {}]
EmptyMetadata == [given |-> TRUE, items |-> {}]
SomeMetadata == [given |-> TRUE, items |-> {<<"k1", "v1">>, <<"k2", "v2">>}]

AttachmentRefs ==
    [co1 |-> [type |-> "credential-offer", id |-> "x1"],
     co2 |-> [type |-> "credential-offer", id |-> "x2"],
     pp2 |-> [type |-> "present-proof", id |-> "p2"],
     gone |-> [type |-> "credential-offer", id |-> "zz"],
     odd |-> [type |-> "bogus", id |-> "x1"]]

CreateAttachmentLists ==
    {<<>>, <<AttachmentRefs.co1, AttachmentRefs.pp2>>,
     <<AttachmentRefs.co2, AttachmentRefs.odd>>,
     <<AttachmentRefs.gone, AttachmentRefs.odd>>}

CreateArgs ==
    [public : BOOLEAN, multi_use : BOOLEAN,
     hs_protos : {<<>>, <<"connections", "didexchange">>},
     attachments : CreateAttachmentLists,
     metadata : {NoMetadata, EmptyMetadata, SomeMetadata},
     mediation_id : {None, "m1", "unknown"},
     my_endpoint : {None}, auto_accept : {None}]

BaseSettings ==
    [public_invites |-> TRUE, has_public_did |-> TRUE, multitenant |-> FALSE,
     base_mediator |-> FALSE, default_mediator |-> FALSE, responder |-> TRUE,
     auto_accept_requests |-> FALSE, auto_accept_invites |-> FALSE,
     auto_respond_credential_offer |-> FALSE,
     auto_respond_presentation_request |-> FALSE]

CreateSettings ==
    {[BaseSettings EXCEPT !.public_invites = pi, !.has_public_did = pd,
                          !.multitenant = mt, !.base_mediator = mt /\ bm,
                          !.responder = rs] :
        pi \in BOOLEAN, pd \in BOOLEAN, mt \in BOOLEAN, bm \in BOOLEAN,
        rs \in BOOLEAN}

NoCall ==
    [args |-> [public |-> FALSE, multi_use |-> FALSE, hs_protos |-> <<>>,
               attachments |-> <<>>, metadata |-> NoMetadata,
               mediation_id |-> None, my_endpoint |-> None, auto_accept |-> None],
     err |-> "nocall", rec |-> NoInvitationRecord, conn_id |-> 0, lookups |-> <<>>,
     calls |-> 0]

InitCreate ==
    /\ settings \in CreateSettings
    /\ conns = <<>>
    /\ nextId = 1
    /\ routing = NoRouting
    /\ outbox = <<>>
    /\ ret = NoCall
    /\ hret = NoHandlerCall
    /\ procs = <<>>

CreateCall == \E a \in CreateArgs : CreateInvitation(a)

NextCreate == CreateCall

SpecCreate == InitCreate /\ [][NextCreate]_vars

----------------------------------------------------------------------------
\* receive_invitation: one invocation is a task that other tasks interleave
\* with at its awaits.  procs[p] holds the position and the locals of the
\* invocation in slot p.

Procs == 1..NumProcs

NoInvitation == InvitationMessage(0, <<>>, <<>>, <<>>)

IdleProc ==
    [pc |-> "idle", inv |-> NoInvitation, use_existing |-> FALSE,
     auto_accept |-> None,
     mediation_arg |-> None, \* mediation_id as the caller gave it
     mediation_id |-> None,  \* mediation_id after the lookup
     public_did |-> None, protos |-> <<>>,
     cand |-> 0,            \* connection find_existing_connection returned
     conn_rec |-> 0,        \* conn_rec (0 is None)
     conn_ready |-> FALSE,  \* conn_rec.is_ready of the local record
     reuse_id |-> 0,        \* id of the HandshakeReuse message created
     reuse_sent |-> FALSE,  \* the message was handed to the responder
     set_initial |-> FALSE, \* reuse_msg_state "initial" was written
     msg_state |-> None,    \* reuse_msg_state read after the wait
     timed_out |-> FALSE,   \* the reuse wait ended by its timeout
     no_answer |-> FALSE,   \* ... and no answer had been let through by then
     created |-> 0,         \* connection a handshake strategy returned
     invoked |-> <<>>,      \* handshake strategies invoked, in order
     events |-> <<>>,       \* calls made on the exchange managers
     result |-> 0, err |-> ErrNone,
     calls |-> 0]           \* invocations started in this slot

\* HSProto.get(name): the member for a recognized name, None otherwise.
HSProtoGet(name) ==
    IF name \in {"didexchange", "connections"} THEN name ELSE None

\* list(dict.fromkeys(s)): s without the later duplicates.
RECURSIVE Dedupe(_)
Dedupe(s) ==
    IF s = <<>> THEN <<>>
    ELSE LET init == Dedupe(SubSeq(s, 1, Len(s) - 1))
             last == s[Len(s)]
         IN  IF \E i \in 1..Len(init) : init[i] = last THEN init
             ELSE Append(init, last)

UnqHandshakeProtos(inv) ==
    LET names == Dedupe(MapSeq(Unqualify, inv.handshake_protocols))
    IN  MapSeq(HSProtoGet, names)

\* find_existing_connection(post_filter = {their_public_did: did}): the first
\* record in store order that matches and is active, 0 if there is none.
MutFindByPublicDidAnyState(store, did) ==
    IF \E i \in 1..Len(store) : store[i].their_public_did = did
    THEN CHOOSE i \in 1..Len(store) :
            /\ store[i].their_public_did = did
            /\ \A j \in 1..(i - 1) : store[j].their_public_did # did
    ELSE 0

FindExistingByPublicDid(store, did) ==
    IF \E i \in 1..Len(store) :
            store[i].their_public_did = did /\ store[i].state = "active"
    THEN CHOOSE i \in 1..Len(store) :
            /\ store[i].their_public_did = did /\ store[i].state = "active"
            /\ \A j \in 1..(i - 1) :
                  ~(store[j].their_public_did = did /\ store[j].state = "active")
    ELSE 0

\* The shape checks of receive_invitation.
MutReceiveShapeServicesOnly(inv) ==
    IF Len(inv.services) # 1 THEN InvalidInvitationShape ELSE ErrNone

ReceiveShapeError(inv) ==
    IF Len(inv.services) # 1 THEN InvalidInvitationShape
    ELSE IF inv.requests_attach = <<>> /\ inv.handshake_protocols = <<>>
    THEN InvalidInvitationShape
    ELSE ErrNone

\* What the call does with a candidate connection it found:
\* "negotiate" (send a reuse message and wait), "keep" (use it as it is) or
\* "reject" (conn_rec = None).
MutReuseKeepsUnpermitted(num_protocols, num_attachments, use_existing) ==
    IF num_protocols >= 1 /\ num_attachments = 0 /\ use_existing THEN "negotiate"
    ELSE IF num_attachments >= 1 THEN "keep"
    ELSE "reject"

MutReuseNeverNegotiates(num_protocols, num_attachments, use_existing) ==
    IF use_existing THEN "keep" ELSE "reject"

ReuseDecision(num_protocols, num_attachments, use_existing) ==
    IF num_protocols >= 1 /\ num_attachments = 0 /\ use_existing THEN "negotiate"
    ELSE IF ~((num_protocols = 0 /\ num_attachments >= 1 /\ use_existing)
              \/ (num_protocols >= 1 /\ num_attachments >= 1 /\ use_existing))
    THEN "reject"
    ELSE "keep"

\* public_did = service_did.split(":")[-1] for a DID service, None for an
\* inline block.
PublicDidOf(service) ==
    IF service.kind = "inline" THEN None ELSE service.did[Len(service.did)]

\* The invocation ends: it returns conn (0 is None) or raises err.
Finish(pr, conn, err) == [pr EXCEPT !.pc = "done", !.result = conn, !.err = err]

\* "try: await mediation_record_if_id(...) except StorageNotFoundError:
\* mediation_id = None"
MutMediationKept(mediation_id, s) == mediation_id

ReceiveMediationId(mediation_id, s) ==
    IF MediationRecordIfId(mediation_id, FALSE, s) = "raise" THEN None
    ELSE mediation_id

\* The call up to its first await after the candidate is decided on.
ReceiveStart(p, inv, use_existing, auto_accept, mediation_id) ==
    /\ procs[p].pc \in {"idle", "done"}
    /\ procs[p].calls < MaxReceives
    /\ LET med == ReceiveMediationId(mediation_id, settings)
           pr0 == [IdleProc EXCEPT !.inv = inv, !.use_existing = use_existing,
                                   !.auto_accept = auto_accept,
                                   !.mediation_arg = mediation_id,
                                   !.mediation_id = med,
                                   !.calls = procs[p].calls + 1]
       IN  IF ReceiveShapeError(inv) # ErrNone
           THEN procs' = [procs EXCEPT ![p] = Finish(pr0, 0, ReceiveShapeError(inv))]
           ELSE LET public_did == PublicDidOf(inv.services[1])
                    protos == UnqHandshakeProtos(inv)
                    cand == IF public_did # None
                            THEN FindExistingByPublicDid(conns, public_did)
                            ELSE 0
                    what == IF cand = 0 THEN "reject"
                            ELSE ReuseDecision(Len(protos),
                                               Len(inv.requests_attach),
                                               use_existing)
                    pr1 == [pr0 EXCEPT !.public_did = public_did,
                                       !.protos = protos, !.cand = cand]
                IN  procs' = [procs EXCEPT ![p] =
                        IF what = "negotiate"
                        THEN [pr1 EXCEPT !.pc = "reuse_send", !.conn_rec = cand,
                                         !.conn_ready = TRUE]
                        ELSE IF what = "keep"
                        THEN [pr1 EXCEPT !.pc = "attach", !.conn_rec = cand,
                                         !.conn_ready = TRUE]
                        ELSE [pr1 EXCEPT !.pc = "new_conn"]]
    /\ outbox' = <<>>
    /\ hret' = Pending(hret)
    /\ UNCHANGED <<settings, conns, nextId, routing, ret>>

\* create_handshake_reuse_message, up to responder.send: the message is
\* threaded to the invitation id stored on the candidate.
HandshakeReuse(thid, pthid, conn) ==
    [type |-> "handshake-reuse", thid |-> thid, pthid |-> pthid, to |-> conn]

\* "pthid = conn_record.invitation_msg_id", not the id of the invitation
\* being received.
MutParentFromInvitation(invi_msg, conn_record) == invi_msg.id

ReuseParentThread(invi_msg, conn_record) == conn_record.invitation_msg_id

ReuseSend(p) ==
    /\ procs[p].pc = "reuse_send"
    /\ nextId <= MaxIds
    /\ LET c == procs[p].conn_rec
       IN  IF settings.responder
           THEN /\ outbox' = <<HandshakeReuse(nextId,
                                   ReuseParentThread(procs[p].inv, conns[c]), c)>>
                /\ procs' = [procs EXCEPT ![p].pc = "reuse_set_id",
                                          ![p].reuse_id = nextId,
                                          ![p].reuse_sent = TRUE]
           ELSE /\ outbox' = <<>>
                /\ procs' = [procs EXCEPT ![p].pc = "wait", ![p].reuse_id = nextId]
    /\ nextId' = nextId + 1
    /\ hret' = Pending(hret)
    /\ UNCHANGED <<settings, conns, routing, ret>>

\* metadata_set(reuse_msg_id)
ReuseSetId(p) ==
    /\ procs[p].pc = "reuse_set_id"
    /\ conns' = [conns EXCEPT ![procs[p].conn_rec].meta.reuse_msg_id =
                                  procs[p].reuse_id]
    /\ procs' = [procs EXCEPT ![p].pc = "reuse_set_state"]
    /\ outbox' = <<>>
    /\ hret' = Pending(hret)
    /\ UNCHANGED <<settings, nextId, routing, ret>>

\* metadata_set(reuse_msg_state, "initial")
ReuseSetState(p) ==
    /\ procs[p].pc = "reuse_set_state"
    /\ conns' = [conns EXCEPT ![procs[p].conn_rec].meta.reuse_msg_state = "initial"]
    /\ procs' = [procs EXCEPT ![p].pc = "wait", ![p].set_initial = TRUE]
    /\ outbox' = <<>>
    /\ hret' = Pending(hret)
    /\ UNCHANGED <<settings, nextId, routing, ret>>

\* check_reuse_msg_state: the poll that ends the wait; a poll that reads
\* "initial" changes nothing.
PollEndsWait(msg_state) == msg_state # "initial"

ReusePoll(p) ==
    /\ procs[p].pc = "wait"
    /\ PollEndsWait(conns[procs[p].conn_rec].meta.reuse_msg_state)
    /\ procs' = [procs EXCEPT ![p].pc = "del_id"]
    /\ outbox' = <<>>
    /\ hret' = Pending(hret)
    /\ UNCHANGED <<settings, conns, nextId, routing, ret>>

\* asyncio.TimeoutError of the wait: both keys deleted, the candidate saved
\* as abandoned, conn_rec = None.
ReuseTimeout(p) ==
    /\ procs[p].pc = "wait"
    /\ conns' = [conns EXCEPT ![procs[p].conn_rec].meta.reuse_msg_id = 0,
                              ![procs[p].conn_rec].meta.reuse_msg_state = None,
                              ![procs[p].conn_rec].state = "abandoned"]
    /\ procs' = [procs EXCEPT ![p].pc = "new_conn", ![p].conn_rec = 0,
                              ![p].conn_ready = FALSE, ![p].timed_out = TRUE,
                              ![p].no_answer =
                                  /\ conns[procs[p].conn_rec].meta.reuse_msg_state
                                         = "initial"
                                  /\ ~(hret.pc = "set"
                                         /\ hret.conn = procs[p].conn_rec)]
    /\ outbox' = <<>>
    /\ hret' = Pending(hret)
    /\ UNCHANGED <<settings, nextId, routing, ret>>

\* metadata_delete(reuse_msg_id)
ReuseDelId(p) ==
    /\ procs[p].pc = "del_id"
    /\ conns' = [conns EXCEPT ![procs[p].conn_rec].meta.reuse_msg_id = 0]
    /\ procs' = [procs EXCEPT ![p].pc = "get_state"]
    /\ outbox' = <<>>
    /\ hret' = Pending(hret)
    /\ UNCHANGED <<settings, nextId, routing, ret>>

\* msg_state = metadata_get(reuse_msg_state); "not_accepted" drops conn_rec.
KeepsCandidate(msg_state) == msg_state # "not_accepted"

ReuseGetState(p) ==
    /\ procs[p].pc = "get_state"
    /\ LET msg_state == conns[procs[p].conn_rec].meta.reuse_msg_state
       IN  procs' = [procs EXCEPT ![p] =
               IF KeepsCandidate(msg_state)
               THEN [@ EXCEPT !.pc = "del_state", !.msg_state = msg_state]
               ELSE [@ EXCEPT !.pc = "new_conn", !.msg_state = msg_state,
                              !.conn_rec = 0, !.conn_ready = FALSE]]
    /\ outbox' = <<>>
    /\ hret' = Pending(hret)
    /\ UNCHANGED <<settings, conns, nextId, routing, ret>>

\* metadata_delete(reuse_msg_state); the invitation has no attachment on
\* this path, so the call returns conn_rec.
MutDelStateKeeps(meta) == meta

DelReuseState(meta) == [meta EXCEPT !.reuse_msg_state = None]

ReuseDelState(p) ==
    /\ procs[p].pc = "del_state"
    /\ conns' = [conns EXCEPT ![procs[p].conn_rec].meta =
                                  DelReuseState(conns[procs[p].conn_rec].meta)]
    /\ procs' = [procs EXCEPT ![p] = Finish(@, procs[p].conn_rec, ErrNone)]
    /\ outbox' = <<>>
    /\ hret' = Pending(hret)
    /\ UNCHANGED <<settings, nextId, routing, ret>>

\* auto_accept or the debug.auto_accept_invites setting
AutoAcceptInvite(auto_accept, s) == auto_accept = "true" \/ s.auto_accept_invites

\* resolve_invitation(did): the recipient key behind a public DID.
ResolvedKey(did) == RawKey(991)

\* The invitation key of the connection a strategy creates: the first
\* recipient key of the service, as a raw key.
ServiceKey(service) ==
    IF service.kind = "did" THEN ResolvedKey(service.did)
    ELSE IF service.recipient_keys = <<>> THEN RawKey(0)
    ELSE RawKeyOf(service.recipient_keys[1])

\* The ConnRecord DIDXManager.receive_invitation or
\* ConnectionManager.receive_invitation stores and returns: the request is
\* sent at once when the invitation is auto-accepted.
ReceivedConn(inv, public_did, accept, proto, mediation_id) ==
    [state |-> IF accept THEN "request" ELSE "invitation",
     their_role |-> "inviter",
     invitation_key |-> ServiceKey(inv.services[1]),
     invitation_msg_id |-> inv.id,
     invitation_mode |-> "once",
     accept |-> IF accept THEN "auto" ELSE "manual",
     connection_protocol |-> proto,
     their_public_did |-> public_did, their_did |-> None,
     meta |-> [NoMeta EXCEPT !.mediation = mediation_id]]

\* The loop over unq_handshake_protos: the protocols tried, up to and
\* including the first one a strategy exists for.
RECURSIVE MutTriedLast(_)
MutTriedLast(protos) ==
    IF protos = <<>> THEN <<>>
    ELSE IF protos[Len(protos)] # None THEN <<protos[Len(protos)]>>
    ELSE MutTriedLast(SubSeq(protos, 1, Len(protos) - 1))

RECURSIVE StrategiesTried(_)
StrategiesTried(protos) ==
    IF protos = <<>> THEN <<>>
    ELSE IF Head(protos) # None THEN <<Head(protos)>>
    ELSE StrategiesTried(Tail(protos))

\* conn_rec is None: a new connection through the first handshake protocol
\* that has a strategy.
NewConnection(p) ==
    /\ procs[p].pc = "new_conn"
    /\ LET pr == procs[p]
           tried == StrategiesTried(pr.protos)
       IN  IF pr.protos = <<>>
           THEN /\ procs' = [procs EXCEPT ![p] =
                                 Finish(pr, 0, NoHandshakeProtocolAvailable)]
                /\ UNCHANGED conns
           ELSE IF tried = <<>>
           THEN /\ procs' = [procs EXCEPT ![p] = Finish(pr, 0, ErrNone)]
                /\ UNCHANGED conns
           ELSE /\ Len(conns) < MaxConns
                /\ conns' = Append(conns,
                       ReceivedConn(pr.inv, pr.public_did,
                                    AutoAcceptInvite(pr.auto_accept, settings),
                                    tried[1], pr.mediation_id))
                /\ procs' = [procs EXCEPT ![p] =
                       [pr EXCEPT !.pc = "attach", !.conn_rec = Len(conns) + 1,
                                  !.conn_ready = FALSE,
                                  !.created = Len(conns) + 1,
                                  !.invoked = tried]]
    /\ outbox' = <<>>
    /\ hret' = Pending(hret)
    /\ UNCHANGED <<settings, nextId, routing, ret>>

\* ConnRecord.is_ready
IsReady(conn) == conn.state \in {"active", "response"}

\* PRESENTATION_REQUEST, PRES_20_REQUEST, CREDENTIAL_OFFER, CRED_20_OFFER
AttachHandlers == {"pres_v1", "pres_v2", "cred_v1", "cred_v2"}

\* How the first attachment of the invitation is handled.
MutDispatchAnyType(att) ==
    IF att.kind # "decorator" THEN "malformed"
    ELSE IF ~att.data THEN "skip"
    ELSE IF Unqualify(att.type) \in AttachHandlers THEN Unqualify(att.type)
    ELSE "cred_v1"

AttachDispatch(att) ==
    IF att.kind # "decorator" THEN "malformed"
    ELSE IF ~att.data THEN "skip"
    ELSE IF Unqualify(att.type) \in AttachHandlers THEN Unqualify(att.type)
    ELSE "unsupported"

ExchangeEvent(op, conn) == [op |-> op, conn |-> conn]

PresentationMessage(conn) ==
    [type |-> "presentation", thid |-> 0, pthid |-> 0, to |-> conn]

CredRequestMessage(conn) ==
    [type |-> "credential-request", thid |-> 0, pthid |-> 0, to |-> conn]

\* What ends an automatic presentation when the wallet holds no credential
\* that satisfies the request: _process_pres_request_v1 selects the
\* credentials itself and translates the ValueError; _process_pres_request_v2
\* leaves the selection to V20PresManager.create_pres and lets its error
\* through.
NoCredentialsError(how) ==
    IF how = "pres_v1" THEN CannotAutoPresent ELSE CreatePresError

\* "Request Attach": the first attachment, when there is one and there is
\* a connection.  holds is whether the wallet has credentials that satisfy
\* a presentation request.
Attach(p, holds) ==
    /\ procs[p].pc = "attach"
    /\ LET pr == procs[p]
           c == pr.conn_rec
       IN  IF pr.inv.requests_attach = <<>> \/ c = 0
           THEN /\ procs' = [procs EXCEPT ![p] = Finish(pr, c, ErrNone)]
                /\ outbox' = <<>>
           ELSE LET how == AttachDispatch(pr.inv.requests_attach[1])
                IN  IF how = "malformed"
                    THEN /\ procs' = [procs EXCEPT ![p] =
                                          Finish(pr, 0, MalformedAttachment)]
                         /\ outbox' = <<>>
                    ELSE IF how = "unsupported"
                    THEN /\ procs' = [procs EXCEPT ![p] =
                                          Finish(pr, 0, UnsupportedAttachmentType)]
                         /\ outbox' = <<>>
                    ELSE IF how = "skip"
                    THEN /\ procs' = [procs EXCEPT ![p] = Finish(pr, c, ErrNone)]
                         /\ outbox' = <<>>
                    ELSE IF how \in {"cred_v1", "cred_v2"}
                    THEN /\ procs' = [procs EXCEPT ![p].pc =
                              IF AutoAcceptInvite(pr.auto_accept, settings)
                              THEN "wait_active" ELSE "cred"]
                         /\ outbox' = <<>>
                    ELSE LET ev == Append(pr.events, ExchangeEvent(how, c))
                             pr1 == [pr EXCEPT !.events = ev]
                         IN  IF ~settings.auto_respond_presentation_request
                             THEN /\ procs' = [procs EXCEPT ![p] =
                                          Finish(pr1, 0, AutoRespondDisabled)]
                                  /\ outbox' = <<>>
                             ELSE IF ~holds
                             THEN /\ procs' = [procs EXCEPT ![p] =
                                          Finish(pr1, 0, NoCredentialsError(how))]
                                  /\ outbox' = <<>>
                             ELSE /\ procs' = [procs EXCEPT ![p] =
                                          Finish(pr1, c, ErrNone)]
                                  /\ outbox' = IF settings.responder
                                               THEN <<PresentationMessage(c)>>
                                               ELSE <<>>
    /\ hret' = Pending(hret)
    /\ UNCHANGED <<settings, conns, nextId, routing, ret>>

\* conn_rec_is_active: a poll that finds the connection ready ends the wait
\* and replaces conn_rec by the record read.
PollActive(p) ==
    /\ procs[p].pc = "wait_active"
    /\ IsReady(conns[procs[p].conn_rec])
    /\ procs' = [procs EXCEPT ![p].pc = "cred", ![p].conn_ready = TRUE]
    /\ outbox' = <<>>
    /\ hret' = Pending(hret)
    /\ UNCHANGED <<settings, conns, nextId, routing, ret>>

\* asyncio.TimeoutError of that wait: a warning, conn_rec as it was.
ActiveTimeout(p) ==
    /\ procs[p].pc = "wait_active"
    /\ procs' = [procs EXCEPT ![p].pc = "cred"]
    /\ outbox' = <<>>
    /\ hret' = Pending(hret)
    /\ UNCHANGED <<settings, conns, nextId, routing, ret>>

\* settings.get("debug.auto_respond_credential_offer")
MutAutoRespondAlways(s) == TRUE

AutoRespondCredOffer(s) == s.auto_respond_credential_offer

\* "if auto_respond_credential_offer: if conn_rec.is_ready:" a request is
\* made for the offer received.
MutCredRequestIgnoresReady(s, ready) == AutoRespondCredOffer(s)

CredRequestMade(s, ready) == AutoRespondCredOffer(s) /\ ready

\* _process_cred_offer_v1 / _process_cred_offer_v2: the offer is received,
\* then a request is made and sent if so configured and conn_rec is ready.
CredOffer(p) ==
    /\ procs[p].pc = "cred"
    /\ LET pr == procs[p]
           c == pr.conn_rec
           how == AttachDispatch(pr.inv.requests_attach[1])
           pr1 == [pr EXCEPT !.events = Append(pr.events, ExchangeEvent(how, c))]
       IN  IF ~AutoRespondCredOffer(settings)
           THEN /\ procs' = [procs EXCEPT ![p] = Finish(pr1, 0, AutoRespondDisabled)]
                /\ outbox' = <<>>
           ELSE /\ procs' = [procs EXCEPT ![p] = Finish(pr1, c, ErrNone)]
                /\ outbox' = IF CredRequestMade(settings, pr.conn_ready)
                                /\ settings.responder
                             THEN <<CredRequestMessage(c)>> ELSE <<>>
    /\ hret' = Pending(hret)
    /\ UNCHANGED <<settings, conns, nextId, routing, ret>>

\* The handshake of a connection goes on outside this manager: the peer's
\* answer makes a connection that is under way active.
HandshakeProgress(c) ==
    /\ c \in 1..Len(conns)
    /\ conns[c].state \in {"invitation", "request", "response"}
    /\ conns[c].their_role = "inviter"
    /\ conns' = [conns EXCEPT ![c].state = "active"]
    /\ outbox' = <<>>
    /\ hret' = Pending(hret)
    /\ UNCHANGED <<settings, nextId, routing, ret, procs>>

\* receive_reuse_accepted_message / receive_problem_report: the thread id of
\* the message must be the reuse_msg_id read from the connection; then
\* reuse_msg_state is set.  Any failure is wrapped.
MutThreadAlwaysMatches(conn, thid) == TRUE

ThreadMatches(conn, thid) == thid = conn.meta.reuse_msg_id

HandlerCall(op, c, thid, pthid, sender, err, pc) ==
    [op |-> op, conn |-> c, thid |-> thid, pthid |-> pthid, sender |-> sender,
     err |-> err, pc |-> pc]

\* metadata_get(reuse_msg_id) and the assert
HandlerGuard(op, c, thid) ==
    /\ hret.pc = "idle"
    /\ c \in 1..Len(conns)
    /\ hret' = IF ThreadMatches(conns[c], thid)
               THEN HandlerCall(op, c, thid, 0, None, ErrNone, "set")
               ELSE HandlerCall(op, c, thid, 0, None, ReuseNegotiationFailed, "idle")
    /\ outbox' = <<>>
    /\ UNCHANGED <<settings, conns, nextId, routing, ret, procs>>

ReceiveReuseAccepted(c, thid) == HandlerGuard("reuse-accepted", c, thid)

ReceiveProblemReport(c, thid) == HandlerGuard("problem-report", c, thid)

\* The value each of the two handlers writes.
StateWritten(op) == IF op = "reuse-accepted" THEN "accepted" ELSE "not_accepted"

\* metadata_set(reuse_msg_state, ...) of a handler call that passed the
\* assert.
HandlerSetState ==
    /\ hret.pc = "set"
    /\ conns' = [conns EXCEPT ![hret.conn].meta.reuse_msg_state =
                                  StateWritten(hret.op)]
    /\ hret' = [hret EXCEPT !.pc = "idle"]
    /\ outbox' = <<>>
    /\ UNCHANGED <<settings, nextId, routing, ret, procs>>

\* find_existing_connection(post_filter = {invitation_msg_id: id}) and
\* find_existing_connection(tag_filter = {their_did: did}): the first
\* matching record in store order that is active, 0 if there is none.
MutFindByInvitationAnyState(store, id) ==
    IF \E i \in 1..Len(store) : store[i].invitation_msg_id = id
    THEN CHOOSE i \in 1..Len(store) :
            /\ store[i].invitation_msg_id = id
            /\ \A j \in 1..(i - 1) : store[j].invitation_msg_id # id
    ELSE 0

FindExistingByInvitation(store, id) ==
    IF \E i \in 1..Len(store) :
            store[i].invitation_msg_id = id /\ store[i].state = "active"
    THEN CHOOSE i \in 1..Len(store) :
            /\ store[i].invitation_msg_id = id /\ store[i].state = "active"
            /\ \A j \in 1..(i - 1) :
                  ~(store[j].invitation_msg_id = id /\ store[j].state = "active")
    ELSE 0

FindExistingByTheirDid(store, did) ==
    IF \E i \in 1..Len(store) :
            store[i].their_did = did /\ store[i].state = "active"
    THEN CHOOSE i \in 1..Len(store) :
            /\ store[i].their_did = did /\ store[i].state = "active"
            /\ \A j \in 1..(i - 1) :
                  ~(store[j].their_did = did /\ store[j].state = "active")
    ELSE 0

\* HandshakeReuseAccept with assign_thread_id(thid = reuse_msg_id,
\* pthid = invi_msg_id)
HandshakeReuseAccept(thid, pthid, conn) ==
    [type |-> "handshake-reuse-accept", thid |-> thid, pthid |-> pthid,
     to |-> conn]

\* receive_reuse_message, first lookup: by the invitation id the reuse
\* message names as its parent thread.
ReceiveReuseMessage(thid, pthid, sender) ==
    /\ hret.pc = "idle"
    /\ LET c == FindExistingByInvitation(conns, pthid)
       IN  hret' = HandlerCall("reuse", c, thid, pthid, sender, ErrNone,
                               IF c # 0 THEN "send" ELSE "find_did")
    /\ outbox' = <<>>
    /\ UNCHANGED <<settings, conns, nextId, routing, ret, procs>>

\* Second lookup, when the first found nothing: by the sender's DID.  When
\* this finds nothing either the handler returns.
ReuseMessageFindByDid ==
    /\ hret.pc = "find_did"
    /\ LET c == FindExistingByTheirDid(conns, hret.sender)
       IN  hret' = [hret EXCEPT !.conn = c,
                                !.pc = IF c # 0 THEN "send" ELSE "idle"]
    /\ outbox' = <<>>
    /\ UNCHANGED <<settings, conns, nextId, routing, ret, procs>>

\* responder.send(reuse_accept_msg) when there is a responder.
ReuseMessageSend ==
    /\ hret.pc = "send"
    /\ outbox' = IF settings.responder
                 THEN <<HandshakeReuseAccept(hret.thid, hret.pthid, hret.conn)>>
                 ELSE <<>>
    /\ hret' = [hret EXCEPT !.pc = "idle"]
    /\ UNCHANGED <<settings, conns, nextId, routing, ret, procs>>

\* The inviter's side of a handshake, outside this manager: the peer's
\* request names the peer's DID on the invitation's connection, the
\* completed handshake makes the connection active.
PairwiseDid == "A"

RequestReceived(c) ==
    /\ c \in 1..Len(conns)
    /\ conns[c].state = "invitation"
    /\ conns[c].their_role = "requester"
    /\ conns' = [conns EXCEPT ![c].state = "request",
                              ![c].their_did = PairwiseDid]
    /\ outbox' = <<>>
    /\ hret' = Pending(hret)
    /\ UNCHANGED <<settings, nextId, routing, ret, procs>>

HandshakeCompleted(c) ==
    /\ c \in 1..Len(conns)
    /\ conns[c].state = "request"
    /\ conns[c].their_role = "requester"
    /\ conns' = [conns EXCEPT ![c].state = "active"]
    /\ outbox' = <<>>
    /\ hret' = Pending(hret)
    /\ UNCHANGED <<settings, nextId, routing, ret, procs>>

----------------------------------------------------------------------------
\* Invitations and settings receive_invitation is exercised with.

PeerDid == "D"
PeerInvitationId == 101

\* A message type under the prefix older agents use.
OldQualify(name) == <<"did:sov:BzCbsNYhMrjHiqZDTUASHg;spec", name>>

PeerInline == InlineService(<<DidKeyOf(RawKey(777))>>, <<>>, "http://peer")

ReceivedAttachments ==
    [cred1 |-> Wrap("cred_v1", "x1"), cred2 |-> Wrap("cred_v2", "x2"),
     pres1 |-> Wrap("pres_v1", "p1"), pres2 |-> Wrap("pres_v2", "p2"),
     other |-> Wrap("basicmessage", "b1"),
     old |-> [Wrap("pres_v2", "p2") EXCEPT !.type = OldQualify("pres_v2")],
     nodata |-> [Wrap("cred_v1", "x1") EXCEPT !.data = FALSE],
     raw |-> [Wrap("cred_v1", "x1") EXCEPT !.kind = "dict"]]

ReceivedProtocolLists ==
    {<<>>, <<Qualify("didexchange")>>,
     <<Qualify("connections"), Qualify("didexchange"), Qualify("connections")>>,
     <<Qualify("bogus")>>}

ReceiveCall(inv, use_existing, auto_accept, mediation_id) ==
    [inv |-> inv, use_existing |-> use_existing, auto_accept |-> auto_accept,
     mediation_id |-> mediation_id]

\* Every shape of the service list against empty and non-empty contents.
ShapeCalls ==
    {ReceiveCall(InvitationMessage(PeerInvitationId, hs, atts, services),
                 TRUE, None, None) :
        hs \in {<<>>, <<Qualify("didexchange")>>},
        atts \in {<<>>, <<ReceivedAttachments.cred1>>},
        services \in {<<>>, <<DidService(PeerDid)>>, <<PeerInline>>,
                      <<DidService(PeerDid), PeerInline>>}}

\* Invitations of a public DID: every combination of protocols,
\* attachments and permission to reuse.
ReuseCalls ==
    {ReceiveCall(InvitationMessage(PeerInvitationId, hs, atts,
                                   <<DidService(PeerDid)>>),
                 use_existing, auto_accept, None) :
        hs \in ReceivedProtocolLists,
        atts \in {<<>>, <<ReceivedAttachments.cred1>>,
                  <<ReceivedAttachments.pres1, ReceivedAttachments.raw>>},
        use_existing \in BOOLEAN, auto_accept \in {None, "true"}}

\* Every kind of first attachment, on an invitation with an inline service.
AttachCalls ==
    {ReceiveCall(InvitationMessage(PeerInvitationId, <<Qualify("connections")>>,
                                   <<att>>, <<PeerInline>>),
                 TRUE, None, mediation_id) :
        att \in {ReceivedAttachments[n] : n \in DOMAIN ReceivedAttachments},
        mediation_id \in {None, "m1", "unknown"}}

ReceiveCalls == ShapeCalls \cup ReuseCalls \cup AttachCalls

ReceiveSettings ==
    {[BaseSettings EXCEPT !.responder = rs,
                          !.auto_respond_credential_offer = ar,
                          !.auto_respond_presentation_request = ar] :
        rs \in BOOLEAN, ar \in BOOLEAN}

\* One invocation of receive_invitation at a time (slot 1), with the
\* handshakes and the peer's reuse answers going on around it.
InitSolo ==
    /\ settings \in ReceiveSettings
    /\ conns = <<>>
    /\ nextId = 1
    /\ routing = NoRouting
    /\ outbox = <<>>
    /\ ret = NoCall
    /\ hret = NoHandlerCall
    /\ procs = [p \in Procs |-> IdleProc]

ThreadIds == 1..MaxIds

SoloStart ==
    \E c \in ReceiveCalls :
        ReceiveStart(1, c.inv, c.use_existing, c.auto_accept, c.mediation_id)
SoloReuseSend == ReuseSend(1)
SoloReuseSetId == ReuseSetId(1)
SoloReuseSetState == ReuseSetState(1)
SoloReusePoll == ReusePoll(1)
SoloReuseTimeout == ReuseTimeout(1)
SoloReuseDelId == ReuseDelId(1)
SoloReuseGetState == ReuseGetState(1)
SoloReuseDelState == ReuseDelState(1)
SoloNewConnection == NewConnection(1)
SoloAttach == \E holds \in BOOLEAN : Attach(1, holds)
SoloPollActive == PollActive(1)
SoloActiveTimeout == ActiveTimeout(1)
SoloCredOffer == CredOffer(1)
Handshake == \E c \in 1..MaxConns : HandshakeProgress(c)
ReuseAccepted == \E c \in 1..MaxConns, thid \in ThreadIds : ReceiveReuseAccepted(c, thid)
ProblemReport == \E c \in 1..MaxConns, thid \in ThreadIds : ReceiveProblemReport(c, thid)

NextSolo ==
    \/ SoloStart
    \/ SoloReuseSend
    \/ SoloReuseSetId
    \/ SoloReuseSetState
    \/ SoloReusePoll
    \/ SoloReuseTimeout
    \/ SoloReuseDelId
    \/ SoloReuseGetState
    \/ SoloReuseDelState
    \/ SoloNewConnection
    \/ SoloAttach
    \/ SoloPollActive
    \/ SoloActiveTimeout
    \/ SoloCredOffer
    \/ Handshake
    \/ ReuseAccepted
    \/ ProblemReport
    \/ HandlerSetState

SpecSolo == InitSolo /\ [][NextSolo]_vars

----------------------------------------------------------------------------
\* Progress of one invocation.  The event loop runs a task that is ready, and
\* asyncio.wait_for ends a wait whose time is up: the steps of the call,
\* the two timeouts among them, are taken when they stay enabled.  Nothing is
\* assumed of the peer: its answers and the handshakes may never come.

LiveCalls ==
    {ReceiveCall(InvitationMessage(PeerInvitationId, hs, atts,
                                   <<DidService(PeerDid)>>),
                 use_existing, auto_accept, None) :
        hs \in {<<Qualify("didexchange")>>, <<Qualify("bogus")>>},
        atts \in {<<>>, <<ReceivedAttachments.cred2>>,
                  <<ReceivedAttachments.pres1>>, <<ReceivedAttachments.pres2>>},
        use_existing \in BOOLEAN, auto_accept \in {None, "true"}}

LiveStart ==
    \E c \in LiveCalls :
        ReceiveStart(1, c.inv, c.use_existing, c.auto_accept, c.mediation_id)

LiveCallStep ==
    \/ SoloReuseSend
    \/ SoloReuseSetId
    \/ SoloReuseSetState
    \/ SoloReusePoll
    \/ SoloReuseTimeout
    \/ SoloReuseDelId
    \/ SoloReuseGetState
    \/ SoloReuseDelState
    \/ SoloNewConnection
    \/ SoloAttach
    \/ SoloPollActive
    \/ SoloActiveTimeout
    \/ SoloCredOffer

NextLive ==
    \/ LiveStart
    \/ LiveCallStep
    \/ Handshake
    \/ ReuseAccepted
    \/ ProblemReport
    \/ HandlerSetState

SpecLive == InitSolo /\ [][NextLive]_vars /\ WF_vars(LiveCallStep)

----------------------------------------------------------------------------
\* Both invitation operations of one agent, with mediation ids that name a
\* record, none, or no record.

MediationIds == {None, "m1", "unknown"}

MedCreateArgs ==
    [public : {FALSE}, multi_use : BOOLEAN,
     hs_protos : {<<>>, <<"didexchange">>},
     attachments : {<<>>},
     metadata : {NoMetadata},
     mediation_id : MediationIds,
     my_endpoint : {None}, auto_accept : {None}]

MedCalls ==
    {ReceiveCall(InvitationMessage(PeerInvitationId, hs, <<>>, <<PeerInline>>),
                 TRUE, auto_accept, mediation_id) :
        hs \in {<<Qualify("connections")>>, <<Qualify("didexchange")>>},
        auto_accept \in {None, "true"},
        mediation_id \in MediationIds}

MedCreate == \E a \in MedCreateArgs : CreateInvitation(a)

MedStart ==
    \E c \in MedCalls :
        ReceiveStart(1, c.inv, c.use_existing, c.auto_accept, c.mediation_id)

NextMediation ==
    \/ MedCreate
    \/ MedStart
    \/ SoloNewConnection
    \/ SoloAttach

SpecMediation == InitSolo /\ [][NextMediation]_vars

----------------------------------------------------------------------------
\* Two invocations of receive_invitation interleaved at their awaits, on
\* invitations of a public DID an active connection exists for.

\* The connection an earlier call made from an invitation of PeerDid, its
\* handshake completed.
ActiveCandidate ==
    [ReceivedConn(InvitationMessage(PeerInvitationId,
                                    <<Qualify("didexchange")>>, <<>>,
                                    <<DidService(PeerDid)>>),
                  PeerDid, FALSE, "didexchange", None)
        EXCEPT !.state = "active"]

DuoCalls ==
    {ReceiveCall(InvitationMessage(PeerInvitationId, <<Qualify("didexchange")>>,
                                   <<>>, <<DidService(PeerDid)>>),
                 use_existing, None, None) :
        use_existing \in BOOLEAN}

InitDuo ==
    /\ settings \in {[BaseSettings EXCEPT !.responder = rs] : rs \in BOOLEAN}
    /\ conns = <<ActiveCandidate>>
    /\ nextId = 1
    /\ routing = NoRouting
    /\ outbox = <<>>
    /\ ret = NoCall
    /\ hret = NoHandlerCall
    /\ procs = [p \in Procs |-> IdleProc]

DuoStart ==
    \E p \in Procs, c \in DuoCalls :
        /\ procs[p].calls < MaxDuoCalls
        /\ ReceiveStart(p, c.inv, c.use_existing, c.auto_accept, c.mediation_id)
DuoReuseSend == \E p \in Procs : ReuseSend(p)
DuoReuseSetId == \E p \in Procs : ReuseSetId(p)
DuoReuseSetState == \E p \in Procs : ReuseSetState(p)
DuoReusePoll == \E p \in Procs : ReusePoll(p)
DuoReuseTimeout == \E p \in Procs : ReuseTimeout(p)
DuoReuseDelId == \E p \in Procs : ReuseDelId(p)
DuoReuseGetState == \E p \in Procs : ReuseGetState(p)
DuoReuseDelState == \E p \in Procs : ReuseDelState(p)
DuoNewConnection == \E p \in Procs : NewConnection(p)
DuoAttach == \E p \in Procs : Attach(p, TRUE)

NextDuo ==
    \/ DuoStart
    \/ DuoReuseSend
    \/ DuoReuseSetId
    \/ DuoReuseSetState
    \/ DuoReusePoll
    \/ DuoReuseTimeout
    \/ DuoReuseDelId
    \/ DuoReuseGetState
    \/ DuoReuseDelState
    \/ DuoNewConnection
    \/ DuoAttach
    \/ Handshake
    \/ ReuseAccepted
    \/ ProblemReport
    \/ HandlerSetState

SpecDuo == InitDuo /\ [][NextDuo]_vars

----------------------------------------------------------------------------
\* One invocation at a time on a store that holds an active connection made
\* from an earlier invitation of PeerDid; the invitations received are that
\* one again and a later one.

LaterInvitationId == 102

SetupCalls ==
    {ReceiveCall(InvitationMessage(id, <<Qualify("didexchange")>>, <<>>,
                                   <<DidService(PeerDid)>>),
                 use_existing, None, None) :
        id \in {PeerInvitationId, LaterInvitationId},
        use_existing \in BOOLEAN}

SetupStart ==
    \E c \in SetupCalls :
        ReceiveStart(1, c.inv, c.use_existing, c.auto_accept, c.mediation_id)

NextSetup ==
    \/ SetupStart
    \/ SoloReuseSend
    \/ SoloReuseSetId
    \/ SoloReuseSetState
    \/ SoloReusePoll
    \/ SoloReuseTimeout
    \/ SoloReuseDelId
    \/ SoloReuseGetState
    \/ SoloReuseDelState
    \/ SoloNewConnection
    \/ SoloAttach
    \/ Handshake
    \/ ReuseAccepted
    \/ ProblemReport
    \/ HandlerSetState

SpecSetup == InitDuo /\ [][NextSetup]_vars

----------------------------------------------------------------------------
\* One invocation on a store that holds two connections, each of PeerDid or
\* of another public DID, in any state.

OtherDid == "E"

ConnStates == {"invitation", "request", "active", "abandoned"}

StoredConns ==
    {[ActiveCandidate EXCEPT !.state = st, !.their_public_did = did] :
        st \in ConnStates, did \in {PeerDid, OtherDid}}

SelectCalls ==
    {ReceiveCall(InvitationMessage(LaterInvitationId, <<Qualify("didexchange")>>,
                                   atts, <<service>>),
                 use_existing, None, None) :
        atts \in {<<>>, <<ReceivedAttachments.pres1>>},
        service \in {DidService(PeerDid), PeerInline},
        use_existing \in BOOLEAN}

InitSelect ==
    /\ settings \in ReceiveSettings
    /\ conns \in {<<a, b>> : a \in StoredConns, b \in StoredConns}
    /\ nextId = 1
    /\ routing = NoRouting
    /\ outbox = <<>>
    /\ ret = NoCall
    /\ hret = NoHandlerCall
    /\ procs = [p \in Procs |-> IdleProc]

SelectStart ==
    \E c \in SelectCalls :
        /\ procs[1].calls < MaxDuoCalls
        /\ ReceiveStart(1, c.inv, c.use_existing, c.auto_accept, c.mediation_id)

NextSelect ==
    \/ SelectStart
    \/ SoloReuseSend
    \/ SoloReuseSetId
    \/ SoloReuseSetState
    \/ SoloReusePoll
    \/ SoloReuseTimeout
    \/ SoloReuseDelId
    \/ SoloReuseGetState
    \/ SoloReuseDelState
    \/ SoloNewConnection
    \/ SoloAttach

SpecSelect == InitSelect /\ [][NextSelect]_vars

----------------------------------------------------------------------------
\* Round trip: the invitations create_invitation returns for the pairwise,
\* single-use case, received by an agent with an empty store.

RoundCreateArgs ==
    [public : {FALSE}, multi_use : {FALSE},
     hs_protos : {<<"didexchange">>, <<"connections", "didexchange">>,
                  <<"didexchange", "connections">>,
                  <<"connections", "connections", "didexchange">>},
     attachments : {<<>>},
     metadata : {NoMetadata},
     mediation_id : {None, "m1"},
     my_endpoint : {None}, auto_accept : {None}]

CreatedInvitations ==
    {CreateOutcome(a, BaseSettings, 1).rec.invitation : a \in RoundCreateArgs}

\* Lists the dispatcher does not know every name of.
ForeignInvitations ==
    {InvitationMessage(PeerInvitationId, hs, <<>>, <<PeerInline>>) :
        hs \in {<<Qualify("bogus"), Qualify("didexchange"), Qualify("connections")>>,
                <<Qualify("bogus"), Qualify("bogus")>>}}

RoundCalls ==
    {ReceiveCall(inv, TRUE, auto_accept, None) :
        inv \in CreatedInvitations \cup ForeignInvitations,
        auto_accept \in {None, "true"}}

RoundStart ==
    \E c \in RoundCalls :
        ReceiveStart(1, c.inv, c.use_existing, c.auto_accept, c.mediation_id)

NextRound ==
    \/ RoundStart
    \/ SoloNewConnection
    \/ SoloAttach
    \/ Handshake

SpecRound == InitSolo /\ [][NextRound]_vars

----------------------------------------------------------------------------
\* The inviter: it creates a pairwise invitation, the handshake on it runs,
\* and reuse messages of the peer arrive.

PeerCreateArgs ==
    [public : {FALSE}, multi_use : {FALSE},
     hs_protos : {<<"didexchange">>, <<"connections">>},
     attachments : {<<>>},
     metadata : {NoMetadata},
     mediation_id : {None},
     my_endpoint : {None}, auto_accept : {None}]

\* Thread ids, parent thread ids and sender DIDs of the reuse messages:
\* the invitation id 1 of the invitation created and another one, the DID
\* of the peer and another one.
ReuseThreadIds == {5, 6}
ReuseParentIds == {1, 2}
SenderDids == {PairwiseDid, "zz"}

InitPeer ==
    /\ settings \in {[BaseSettings EXCEPT !.responder = rs] : rs \in BOOLEAN}
    /\ conns = <<>>
    /\ nextId = 1
    /\ routing = NoRouting
    /\ outbox = <<>>
    /\ ret = NoCall
    /\ hret = NoHandlerCall
    /\ procs = [p \in Procs |-> IdleProc]

PeerCreate == \E a \in PeerCreateArgs : CreateInvitation(a)
PeerRequest == \E c \in 1..MaxConns : RequestReceived(c)
PeerCompleted == \E c \in 1..MaxConns : HandshakeCompleted(c)
ReuseMessage ==
    \E thid \in ReuseThreadIds, pthid \in ReuseParentIds, sender \in SenderDids :
        ReceiveReuseMessage(thid, pthid, sender)

NextPeer ==
    \/ PeerCreate
    \/ PeerRequest
    \/ PeerCompleted
    \/ ReuseMessage
    \/ ReuseMessageFindByDid
    \/ ReuseMessageSend

SpecPeer == InitPeer /\ [][NextPeer]_vars

----------------------------------------------------------------------------
\* Properties of create_invitation (checked under SpecCreate).

\* The step is a create_invitation call; its arguments and outcome are ret'.
CreateStep == ret'.calls = ret.calls + 1

NothingStored == conns' = conns /\ routing' = routing /\ outbox' = <<>>

EmptyShape(a) == a.hs_protos = <<>> /\ a.attachments = <<>>

MediationResolves(a) == a.mediation_id # "unknown"

\* The reference names a recognized type and a record of the v1 or v2 store.
KnownType(atch) == atch.type \in {"credential-offer", "present-proof"}
Resolvable(atch) ==
    \/ atch.type = "credential-offer" /\ atch.id \in V10CredStore \cup V20CredStore
    \/ atch.type = "present-proof" /\ atch.id \in V10PresStore \cup V20PresStore

\* The new record of a step that stored one.
StoredOne == Len(conns') = Len(conns) + 1 /\ SubSeq(conns', 1, Len(conns)) = conns
NewConn == conns'[Len(conns')]

C2_Original ==
    [][(CreateStep /\ ret'.args.public /\ ret'.args.multi_use)
        => (ret'.err = ConfigurationRejected /\ conns' = conns)]_vars

\* C2 (amended): a call with public and multi_use always fails and stores no
\* connection record; the failure is ConfigurationRejected when the call names
\* a handshake protocol or an attachment and its mediation reference is absent
\* or resolves, InvalidInvitationShape when it names neither, and the store's
\* not-found error when the mediation reference names no record.
C2_PublicMultiUseFails ==
    [][(CreateStep /\ ret'.args.public /\ ret'.args.multi_use)
        => /\ NothingStored
           /\ ret'.err = IF ~MediationResolves(ret'.args) THEN StorageNotFound
                          ELSE IF EmptyShape(ret'.args) THEN InvalidInvitationShape
                          ELSE ConfigurationRejected]_vars

C2_Witness ==
    /\ ret.calls > 0 /\ ret.args.public /\ ret.args.multi_use
    /\ ret.args.attachments # <<>> /\ ret.args.metadata = NoMetadata
    /\ ret.err = ConfigurationRejected /\ conns = <<>>

\* C3 (as stated): a call with public and a metadata map fails with
\* ConfigurationRejected and stores nothing; on the pairwise path the
\* metadata is attached key by key to the new connection record.
C3_Original ==
    [][CreateStep =>
        /\ (ret'.args.public /\ ret'.args.metadata.given)
              => (ret'.err = ConfigurationRejected /\ conns' = conns)
        /\ (~ret'.args.public /\ ret'.err = ErrNone /\ ret'.args.metadata.given)
              => (StoredOne /\ NewConn.meta.user = ret'.args.metadata.items)]_vars

\* C3 (amended): a call with public and a non-empty metadata map always fails
\* and stores no metadata and no connection record; the failure is
\* ConfigurationRejected when the call names a handshake protocol or an
\* attachment and its mediation reference is absent or resolves, otherwise the
\* error of that earlier check; an empty map counts as no metadata.  A
\* successful pairwise call stores every key of its metadata map on the one
\* connection record it creates.
C3_MetadataPublicFailsPairwiseStored ==
    [][CreateStep =>
        /\ (ret'.args.public /\ ret'.args.metadata.given
               /\ ret'.args.metadata.items # {})
              => /\ NothingStored
                 /\ ret'.err = IF ~MediationResolves(ret'.args) THEN StorageNotFound
                                ELSE IF EmptyShape(ret'.args)
                                     THEN InvalidInvitationShape
                                ELSE ConfigurationRejected
        /\ (ret'.args.public /\ ret'.args.metadata = EmptyMetadata
               /\ ret'.err = ConfigurationRejected)
              => (ret'.args.multi_use \/ ~settings.public_invites
                    \/ ~settings.has_public_did)
        /\ (~ret'.args.public /\ ret'.err = ErrNone)
              => (StoredOne /\ NewConn.meta.user = ret'.args.metadata.items)]_vars

C3_Witness ==
    /\ ret.calls > 0 /\ ret.args.public /\ ~ret.args.multi_use
    /\ ret.args.metadata = SomeMetadata
    /\ ret.err = ConfigurationRejected /\ conns = <<>>

C3_WitnessPairwise ==
    /\ ret.calls > 0 /\ ~ret.args.public /\ ret.err = ErrNone
    /\ ret.args.metadata = SomeMetadata
    /\ conns[ret.conn_id].meta.user = SomeMetadata.items

\* The call reaches the public-DID path: public, past the mediation lookup,
\* the shape check, the flag checks and the attachment loop.
OnPublicPath(a) ==
    /\ a.public /\ ~a.multi_use /\ ~(a.metadata.given /\ a.metadata.items # {})
    /\ MediationResolves(a) /\ ~EmptyShape(a)
    /\ \A i \in 1..Len(a.attachments) : Resolvable(a.attachments[i])

\* C4: on the public-DID path, the call fails with ConfigurationRejected,
\* before any record is stored or key registered, if public invitations are
\* disabled or the wallet has no public DID; otherwise it stores exactly one
\* connection record, with their_role requester and state invitation, and the
\* invitation's one service is the DID reference.
C4_PublicPath ==
    [][(CreateStep /\ OnPublicPath(ret'.args)) =>
        IF ~settings.public_invites \/ ~settings.has_public_did
        THEN ret'.err = ConfigurationRejected /\ NothingStored
        ELSE /\ ret'.err = ErrNone
             /\ StoredOne
             /\ NewConn.their_role = "requester"
             /\ NewConn.state = "invitation"
             /\ ret'.conn_id = Len(conns')
             /\ ret'.rec.invitation.services = <<DidService(PublicDid.did)>>]_vars

C4_Witness ==
    /\ ret.calls > 0 /\ OnPublicPath(ret.args)
    /\ ~settings.public_invites /\ settings.has_public_did
    /\ ret.err = ConfigurationRejected /\ conns = <<>> /\ routing = NoRouting

C4_WitnessStored ==
    /\ ret.calls > 0 /\ OnPublicPath(ret.args) /\ ret.err = ErrNone
    /\ Len(conns) = 1 /\ conns[1].invitation_key = PublicDid.verkey

\* C5 (as stated): a call fails with UnknownAttachmentType, and stores no
\* connection record, if any attachment reference declares a type that is
\* neither credential-offer nor proof request; a reference of a recognized
\* type is looked up in the v1 store first, in the v2 store only when the v1
\* store reports not-found.
LookupOrder(lookups) ==
    \A i \in 1..Len(lookups) :
        LET l == lookups[i]
        IN  /\ Len(l) <= 2
            /\ Len(l) >= 1 => l[1].store = "v1"
            /\ Len(l) = 2 => (~l[1].found /\ l[2].store = "v2")
            /\ (Len(l) >= 1 /\ ~l[1].found) => Len(l) = 2

C5_Original ==
    [][CreateStep =>
        /\ (\E i \in 1..Len(ret'.args.attachments) :
                ~KnownType(ret'.args.attachments[i]))
              => (ret'.err = UnknownAttachmentType /\ conns' = conns)
        /\ LookupOrder(ret'.lookups)]_vars

\* The first reference of the list that does not resolve, 0 if all do.
FirstUnresolved(atts) ==
    IF \A i \in 1..Len(atts) : Resolvable(atts[i]) THEN 0
    ELSE CHOOSE i \in 1..Len(atts) :
            /\ ~Resolvable(atts[i])
            /\ \A j \in 1..(i - 1) : Resolvable(atts[j])

\* C5 (amended): a call that passes the mediation lookup, the shape check and
\* the public flag checks fails at the first attachment reference that does
\* not resolve, and stores nothing: with UnknownAttachmentType if that
\* reference declares a type that is neither credential-offer nor proof
\* request, with the store's not-found error if it is of a recognized type
\* and in neither store; references after it are not looked at.  A reference
\* of a recognized type is looked up in the v1 store first, in the v2 store
\* only when the v1 store reports not-found.
C5_AttachmentResolution ==
    [][CreateStep =>
        LET a == ret'.args
            i == FirstUnresolved(a.attachments)
        IN  /\ (MediationResolves(a) /\ ~EmptyShape(a)
                   /\ ~(a.public /\ a.multi_use)
                   /\ ~(a.public /\ a.metadata.given /\ a.metadata.items # {})
                   /\ i # 0)
                  => /\ NothingStored
                     /\ ret'.err = IF KnownType(a.attachments[i])
                                    THEN StorageNotFound
                                    ELSE UnknownAttachmentType
                     /\ Len(ret'.lookups) = i
            /\ ret'.err = UnknownAttachmentType
                  => (i # 0 /\ ~KnownType(a.attachments[i]))
            /\ LookupOrder(ret'.lookups)
            /\ ret'.err = ErrNone => Len(ret'.lookups) = Len(a.attachments)]_vars

C5_Witness ==
    /\ ret.calls > 0 /\ ret.err = UnknownAttachmentType
    /\ Len(ret.args.attachments) = 2
    /\ Len(ret.lookups) = 2 /\ Len(ret.lookups[1]) = 2 /\ ret.lookups[1][2].found
    /\ conns = <<>>

\* C6: a successful pairwise call returns an InvitationRecord in state
\* initial whose invitation holds exactly one service, an inline block, and
\* whose URL is not empty; it stores exactly one new connection record, in
\* state invitation, with their_role requester, invitation mode multi if
\* multi_use was asked and once otherwise, and the invitation message id of
\* the returned invitation.
C6_PairwiseSuccess ==
    [][(CreateStep /\ ~ret'.args.public /\ ret'.err = ErrNone) =>
        /\ ret'.rec.state = "initial"
        /\ Len(ret'.rec.invitation.services) = 1
        /\ ret'.rec.invitation.services[1].kind = "inline"
        /\ ret'.rec.invitation_url # <<>>
        /\ StoredOne
        /\ ret'.conn_id = Len(conns')
        /\ NewConn.state = "invitation"
        /\ NewConn.their_role = "requester"
        /\ NewConn.invitation_mode = (IF ret'.args.multi_use THEN "multi" ELSE "once")
        /\ NewConn.invitation_msg_id = ret'.rec.invitation.id
        /\ ret'.rec.invi_msg_id = ret'.rec.invitation.id]_vars

C6_Witness ==
    /\ ret.calls > 0 /\ ~ret.args.public /\ ret.args.multi_use
    /\ ret.err = ErrNone /\ Len(conns) = 1
    /\ conns[1].invitation_mode = "multi"
    /\ conns[1].invitation_msg_id = ret.rec.invi_msg_id

----------------------------------------------------------------------------
\* Properties of receive_invitation (checked under SpecSolo).

\* The step is the start of an invocation in slot 1.
ReceiveStep == procs'[1].calls = procs[1].calls + 1

\* The step is taken by the invocation in slot 1.
OwnStep == procs'[1] # procs[1]

\* The step ends the invocation in slot 1.
ReturnStep == procs[1].pc # "done" /\ procs'[1].pc = "done"

BadShape(inv) ==
    \/ Len(inv.services) # 1
    \/ (inv.handshake_protocols = <<>> /\ inv.requests_attach = <<>>)

IsReuseMessage(m) == m.type = "handshake-reuse"

NoReuseMessage(sent) == \A i \in 1..Len(sent) : ~IsReuseMessage(sent[i])

HasCandidate(store, did) ==
    \E i \in 1..Len(store) :
        store[i].their_public_did = did /\ store[i].state = "active"

\* C7: receive_invitation of an invitation whose service list has not
\* exactly one element, or whose handshake protocols and attachments are
\* both empty, fails with InvalidInvitationShape at once: no connection
\* record is created or modified (reuse metadata included) and no message
\* is sent.
C7_BadShapeFails ==
    [][(ReceiveStep /\ BadShape(procs'[1].inv))
          => /\ procs'[1].pc = "done"
             /\ procs'[1].err = InvalidInvitationShape
             /\ procs'[1].result = 0
             /\ conns' = conns
             /\ outbox' = <<>>
             /\ nextId' = nextId]_vars

\* C7 happens: a call with two service entries has failed while an active
\* connection for the invitation's public DID is in the store.
C7_Witness ==
    /\ procs[1].pc = "done"
    /\ procs[1].err = InvalidInvitationShape
    /\ Len(procs[1].inv.services) = 2
    /\ procs[1].inv.handshake_protocols # <<>>
    /\ HasCandidate(conns, PeerDid)

\* C8, the part on the candidate: a call with use_existing_connection
\* false that found a candidate sends no reuse message, leaves the
\* candidate's record (state and metadata) as it is, and does not return
\* the candidate.
C8_CandidateRejected ==
    [][(OwnStep /\ procs'[1].cand # 0 /\ ~procs'[1].use_existing)
          => /\ NoReuseMessage(outbox')
             /\ conns'[procs'[1].cand] = conns[procs'[1].cand]
             /\ procs'[1].conn_rec # procs'[1].cand
             /\ procs'[1].result # procs'[1].cand]_vars

\* C8 as stated: a finished call with use_existing_connection false that
\* found a candidate has not returned the candidate and has sent no reuse
\* message; it has created a new connection through a handshake strategy
\* (which it returns unless it failed later), or it has failed.
C8_Original ==
    (procs[1].pc = "done" /\ procs[1].cand # 0 /\ ~procs[1].use_existing)
        => /\ procs[1].result # procs[1].cand
           /\ ~procs[1].reuse_sent
           /\ \/ procs[1].err # ErrNone
              \/ (procs[1].created # 0 /\ procs[1].invoked # <<>>
                  /\ procs[1].result = procs[1].created)

\* C8 happens: such a call has created a new connection next to the
\* candidate and returned it.
C8_Witness ==
    /\ procs[1].pc = "done"
    /\ procs[1].cand # 0
    /\ ~procs[1].use_existing
    /\ procs[1].err = ErrNone
    /\ procs[1].created # 0
    /\ procs[1].result = procs[1].created
    /\ conns[procs[1].cand].state = "active"

\* The call in slot 1 is, or was, on an invitation with handshake protocols
\* and no attachment, with reuse permitted, and found a candidate.
NegotiatedCall(pr) ==
    /\ pr.cand # 0
    /\ pr.use_existing
    /\ pr.protos # <<>>
    /\ pr.inv.requests_attach = <<>>

\* The same with an attachment on the invitation (with or without
\* handshake protocols).
DirectCall(pr) ==
    /\ pr.cand # 0
    /\ pr.use_existing
    /\ pr.inv.requests_attach # <<>>

\* C9 as stated: whenever a call that was permitted to reuse ends with the
\* candidate as its connection, a reuse message was sent and
\* reuse_msg_state "initial" was recorded before (a responder being
\* available).
C9_Original ==
    (/\ procs[1].pc = "done"
     /\ procs[1].cand # 0
     /\ procs[1].use_existing
     /\ settings.responder
     /\ procs[1].result = procs[1].cand)
        => (procs[1].reuse_sent /\ procs[1].set_initial)

\* C9, corrected: with a responder available, a call permitted to reuse
\* negotiates in one combination only, handshake protocols and no
\* attachment: there the reuse message, threaded to the invitation id
\* stored on the candidate, is sent, then reuse_msg_id and then
\* reuse_msg_state "initial" are recorded on the candidate, all before the
\* wait and so before the candidate is returned.  With an attachment on the
\* invitation (handshake protocols or not) the candidate becomes the
\* connection at once: no reuse message, no reuse metadata, and it is the
\* connection the attachment is processed on and the call returns.
C9_ReuseAttempt ==
    [][/\ (ReceiveStep /\ NegotiatedCall(procs'[1]))
            => procs'[1].pc = "reuse_send"
       /\ (procs[1].pc = "reuse_send" /\ OwnStep /\ settings.responder)
            => /\ outbox' = <<HandshakeReuse(procs'[1].reuse_id,
                                  conns[procs[1].cand].invitation_msg_id,
                                  procs[1].cand)>>
               /\ procs'[1].pc = "reuse_set_id"
       /\ (procs[1].pc = "reuse_set_id" /\ OwnStep)
            => /\ conns'[procs[1].cand].meta.reuse_msg_id = procs[1].reuse_id
               /\ procs'[1].pc = "reuse_set_state"
       /\ (procs[1].pc = "reuse_set_state" /\ OwnStep)
            => /\ conns'[procs[1].cand].meta.reuse_msg_state = "initial"
               /\ procs'[1].pc = "wait"
       /\ (ReturnStep /\ NegotiatedCall(procs'[1]) /\ settings.responder
                /\ procs'[1].result = procs'[1].cand)
            => (procs'[1].reuse_sent /\ procs'[1].set_initial)
       /\ (ReceiveStep /\ DirectCall(procs'[1]))
            => /\ procs'[1].pc = "attach"
               /\ procs'[1].conn_rec = procs'[1].cand
       /\ (OwnStep /\ DirectCall(procs'[1]))
            => /\ NoReuseMessage(outbox')
               /\ conns'[procs'[1].cand] = conns[procs'[1].cand]
               /\ procs'[1].conn_rec = procs'[1].cand
               /\ ~procs'[1].reuse_sent /\ ~procs'[1].set_initial
               /\ \A i \in 1..Len(procs'[1].events) :
                      procs'[1].events[i].conn = procs'[1].cand
       /\ (ReturnStep /\ DirectCall(procs'[1]) /\ procs'[1].err = ErrNone)
            => procs'[1].result = procs'[1].cand]_vars

\* C9 happens: a negotiating call has returned the candidate after sending
\* the reuse message and recording "initial".
C9_Witness ==
    /\ procs[1].pc = "done"
    /\ NegotiatedCall(procs[1])
    /\ settings.responder
    /\ procs[1].result = procs[1].cand
    /\ procs[1].reuse_sent
    /\ procs[1].set_initial

\* C9's other case happens: a call on an invitation with handshake
\* protocols and an attachment has returned the candidate, having sent no
\* reuse message.
C9_WitnessDirect ==
    /\ procs[1].pc = "done"
    /\ DirectCall(procs[1])
    /\ procs[1].protos # <<>>
    /\ procs[1].err = ErrNone
    /\ procs[1].result = procs[1].cand
    /\ procs[1].events # <<>>
    /\ ~procs[1].reuse_sent

C11_TimeoutAbandons ==
    [][(ReturnStep /\ procs'[1].timed_out /\ procs'[1].reuse_sent
            /\ procs'[1].no_answer)
          => /\ conns'[procs'[1].cand].state = "abandoned"
             /\ conns'[procs'[1].cand].meta.reuse_msg_id = 0
             /\ conns'[procs'[1].cand].meta.reuse_msg_state = None
             /\ procs'[1].result # procs'[1].cand
             /\ procs'[1].err = ErrNone]_vars

\* C11 as stated: such a call, when it has finished, has abandoned the
\* candidate, cleared both reuse keys, and created through a handshake
\* strategy a new connection, distinct from the candidate, that it returns.
C11_Original ==
    (procs[1].pc = "done" /\ procs[1].timed_out /\ procs[1].reuse_sent
        /\ procs[1].no_answer)
        => /\ conns[procs[1].cand].state = "abandoned"
           /\ procs[1].invoked # <<>>
           /\ procs[1].created # 0
           /\ procs[1].created # procs[1].cand
           /\ procs[1].result = procs[1].created

\* C11 happens: a call has timed out, abandoned the candidate and returned
\* a new connection.
C11_Witness ==
    /\ procs[1].pc = "done"
    /\ procs[1].timed_out /\ procs[1].reuse_sent /\ procs[1].no_answer
    /\ conns[procs[1].cand].state = "abandoned"
    /\ procs[1].created # 0
    /\ procs[1].result = procs[1].created

\* C12, without the clause on the new connection: a call that read
\* reuse_msg_state "not_accepted" after its wait leaves the candidate's
\* lifecycle state as it was (active, not abandoned) and does not return
\* the candidate.
C12_NotAcceptedDiscards ==
    [][/\ (OwnStep /\ procs'[1].msg_state = "not_accepted")
            => conns'[procs'[1].cand].state = conns[procs'[1].cand].state
       /\ (ReturnStep /\ procs'[1].msg_state = "not_accepted")
            => /\ conns'[procs'[1].cand].state = "active"
               /\ procs'[1].result # procs'[1].cand
               /\ procs'[1].err = ErrNone]_vars

\* C12 as stated: a finished call that read "not_accepted" has left the
\* candidate active and has returned a connection, created by a handshake
\* strategy, that is not the candidate.
C12_Original ==
    (procs[1].pc = "done" /\ procs[1].msg_state = "not_accepted")
        => /\ conns[procs[1].cand].state = "active"
           /\ procs[1].created # 0
           /\ procs[1].result = procs[1].created
           /\ procs[1].result # procs[1].cand

\* C12 happens: a problem report was processed during the wait and the
\* call returned a new connection.
C12_Witness ==
    /\ procs[1].pc = "done"
    /\ procs[1].msg_state = "not_accepted"
    /\ procs[1].created # 0
    /\ procs[1].result = procs[1].created
    /\ conns[procs[1].cand].state = "active"

\* C13 as stated: when a call that sent a reuse message has finished, the
\* candidate's metadata holds neither reuse_msg_id nor reuse_msg_state.
C13_Original ==
    [][(ReturnStep /\ procs'[1].reuse_sent)
          => /\ conns'[procs'[1].cand].meta.reuse_msg_id = 0
             /\ conns'[procs'[1].cand].meta.reuse_msg_state = None]_vars

\* C13, the outcomes that do clear the metadata: after "accepted" and after
\* a timeout with no answer let through, both keys are absent at the return.
C13_ClearedUnlessNotAccepted ==
    [][(ReturnStep /\ procs'[1].reuse_sent
            /\ (procs'[1].msg_state = "accepted"
                    \/ (procs'[1].timed_out /\ procs'[1].no_answer)))
          => /\ conns'[procs'[1].cand].meta.reuse_msg_id = 0
             /\ conns'[procs'[1].cand].meta.reuse_msg_state = None]_vars

\* C13 fails: a call that read "not_accepted" has returned and
\* reuse_msg_state is still "not_accepted" on the candidate.
C13_Witness ==
    /\ procs[1].pc = "done"
    /\ procs[1].reuse_sent
    /\ procs[1].msg_state = "not_accepted"
    /\ conns[procs[1].cand].meta.reuse_msg_id = 0
    /\ conns[procs[1].cand].meta.reuse_msg_state = "not_accepted"

\* The step is the first part of a reuse-accept or problem-report handler
\* call: the read of reuse_msg_id and the assert.
GuardStep ==
    /\ hret.pc = "idle"
    /\ hret'.op \in {"reuse-accepted", "problem-report"}
    /\ (hret'.pc = "set" \/ hret'.err # ErrNone)

\* The step is the second part: the write of reuse_msg_state.
WriteStep == hret.pc = "set" /\ hret'.pc = "idle"

\* C16: a reuse-accept or problem-report handler call goes on to write
\* reuse_msg_state ("accepted", respectively "not_accepted") exactly when
\* the thread id of the message is the reuse_msg_id it reads from the
\* connection; otherwise (also when no reuse_msg_id is stored) it fails
\* with an engine error and changes nothing.  The write changes nothing
\* but reuse_msg_state of that connection, and nothing else ever sets
\* reuse_msg_state to "accepted" or "not_accepted".
C16_ThreadGuard ==
    [][/\ GuardStep
            => /\ conns' = conns
               /\ (hret'.pc = "set")
                     <=> (hret'.thid = conns[hret'.conn].meta.reuse_msg_id)
               /\ (hret'.pc # "set") => hret'.err = ReuseNegotiationFailed
               /\ (hret'.pc = "set") => hret'.err = ErrNone
       /\ WriteStep
            => /\ conns' = [conns EXCEPT ![hret.conn].meta.reuse_msg_state =
                                IF hret.op = "reuse-accepted" THEN "accepted"
                                ELSE "not_accepted"]
               /\ hret'.err = ErrNone
       /\ \A c \in 1..Len(conns) :
              (/\ conns'[c].meta.reuse_msg_state \in {"accepted", "not_accepted"}
               /\ conns'[c].meta.reuse_msg_state # conns[c].meta.reuse_msg_state)
                  => (WriteStep /\ hret.conn = c)]_vars

\* C16 happens: while a negotiation with another thread id is in flight on
\* the connection, a reuse-accept has failed and left it as it was.
C16_Witness ==
    /\ hret.op = "reuse-accepted"
    /\ hret.err = ReuseNegotiationFailed
    /\ conns[hret.conn].meta.reuse_msg_id # 0
    /\ conns[hret.conn].meta.reuse_msg_id # hret.thid
    /\ conns[hret.conn].meta.reuse_msg_state = "initial"
    /\ conns[hret.conn].state = "active"

\* C16's other case happens: a problem report has failed on a connection
\* that stores no reuse_msg_id.
C16_WitnessNoId ==
    /\ hret.op = "problem-report"
    /\ hret.err = ReuseNegotiationFailed
    /\ conns[hret.conn].meta.reuse_msg_id = 0
    /\ conns[hret.conn].meta.reuse_msg_state = None

\* The step is the creation of a connection by the call in slot 1.
CreatesStep == procs[1].created = 0 /\ procs'[1].created # 0

\* The declared handshake protocol name at position i has a strategy.
Recognized(name) == Unqualify(name) \in {"didexchange", "connections"}

\* C19: when receive_invitation creates a connection it invokes exactly
\* one strategy, that of the first declared handshake protocol (in the
\* order of the invitation) that has one, and the connection carries that
\* protocol; for an invitation create_invitation returned for the
\* pairwise, single-use case that is the first declared protocol.
C19_FirstProtocolWins ==
    [][CreatesStep
          => LET hs == procs'[1].inv.handshake_protocols
                 c == procs'[1].created
             IN  /\ Len(procs'[1].invoked) = 1
                 /\ \E i \in 1..Len(hs) :
                        /\ Recognized(hs[i])
                        /\ procs'[1].invoked[1] = Unqualify(hs[i])
                        /\ \A j \in 1..(i - 1) : ~Recognized(hs[j])
                 /\ Len(conns') = Len(conns) + 1
                 /\ c = Len(conns')
                 /\ conns'[c].connection_protocol = procs'[1].invoked[1]
                 /\ (procs'[1].inv \in CreatedInvitations)
                       => conns'[c].connection_protocol = Unqualify(hs[1])]_vars

\* C19 happens: an invitation create_invitation returned with
\* didexchange declared before connections has been received, and the
\* new connection is a didexchange one.
C19_Witness ==
    /\ procs[1].pc = "done"
    /\ procs[1].inv \in CreatedInvitations
    /\ Len(procs[1].inv.handshake_protocols) = 2
    /\ procs[1].inv.handshake_protocols[1] = Qualify("didexchange")
    /\ procs[1].created # 0
    /\ procs[1].result = procs[1].created
    /\ procs[1].invoked = <<"didexchange">>
    /\ conns[procs[1].created].connection_protocol = "didexchange"

\* The finished call had no existing connection to use: none was found,
\* or the one found was rejected for lack of permission, or its reuse was
\* not accepted (answered "not_accepted", or not answered in time).
NoneToUse(pr) ==
    \/ pr.cand = 0
    \/ ~pr.use_existing
    \/ pr.msg_state = "not_accepted"
    \/ pr.timed_out

\* C20: a call of receive_invitation ends with NoHandshakeProtocolAvailable
\* exactly when its invitation, of valid shape, declares no handshake
\* protocol and there is no existing connection to use; it has then
\* created no connection, run no attachment handler, changed no record and
\* sent nothing.
C20_NoProtocolNoConnection ==
    [][ReturnStep
          => /\ (procs'[1].err = NoHandshakeProtocolAvailable)
                   <=> (/\ ~BadShape(procs'[1].inv)
                        /\ procs'[1].inv.handshake_protocols = <<>>
                        /\ NoneToUse(procs'[1]))
             /\ (procs'[1].err = NoHandshakeProtocolAvailable)
                   => /\ procs'[1].created = 0
                      /\ procs'[1].invoked = <<>>
                      /\ procs'[1].events = <<>>
                      /\ procs'[1].result = 0
                      /\ conns' = conns
                      /\ outbox' = <<>>]_vars

\* C20 happens: an invitation with an attachment and no handshake protocol
\* was received without permission to reuse the active connection of its
\* public DID, and the call has failed.
C20_Witness ==
    /\ procs[1].pc = "done"
    /\ procs[1].err = NoHandshakeProtocolAvailable
    /\ procs[1].inv.handshake_protocols = <<>>
    /\ procs[1].inv.requests_attach # <<>>
    /\ procs[1].cand # 0
    /\ ~procs[1].use_existing
    /\ conns[procs[1].cand].state = "active"

----------------------------------------------------------------------------
\* Properties of interleaved invocations (checked under SpecDuo).

\* The invocation in slot p is in its wait on reuse_msg_state of
\* connection c.
Waiting(p, c) == procs[p].pc = "wait" /\ procs[p].conn_rec = c

\* C14 as stated: in every reachable state at most one invocation waits on
\* the reuse_msg_state of a given connection, and the reuse_msg_id stored
\* on that connection is the id of the reuse message that invocation sent.
C14_Original ==
    \A c \in 1..Len(conns) :
        /\ \A p, q \in Procs : (Waiting(p, c) /\ Waiting(q, c)) => p = q
        /\ \A p \in Procs :
              (Waiting(p, c) /\ procs[p].reuse_sent)
                  => conns[c].meta.reuse_msg_id = procs[p].reuse_id

\* C14 fails: both invocations wait on the same connection, each after
\* sending a reuse message of its own; the stored reuse_msg_id is the
\* second one's.
C14_Witness ==
    /\ Waiting(1, 1) /\ Waiting(2, 1)
    /\ procs[1].reuse_sent /\ procs[2].reuse_sent
    /\ procs[1].reuse_id # procs[2].reuse_id
    /\ conns[1].meta.reuse_msg_id = procs[2].reuse_id
    /\ conns[1].meta.reuse_msg_state = "initial"

\* Both invocations have finished calls that negotiated reuse of the
\* connection the store began with.
BothNegotiated ==
    \A p \in Procs :
        /\ procs[p].pc = "done"
        /\ NegotiatedCall(procs[p])
        /\ procs[p].cand = 1
        /\ procs[p].reuse_sent

\* C15 as stated: two calls with reuse permitted, on invitations without
\* attachments from the DID the active connection is bound to, do not
\* create two new connection records, and when a negotiation reached
\* "accepted" both return the same connection.
C15_Original ==
    BothNegotiated
        => /\ Len(conns) <= 2
           /\ (\E p \in Procs : procs[p].msg_state = "accepted")
                 => procs[1].result = procs[2].result

\* C15 fails: the second call overwrote reuse_msg_id while the first was
\* waiting; the first timed out, abandoned the connection and returned a
\* new one, the second returned the abandoned connection.
C15_Witness ==
    /\ BothNegotiated
    /\ procs[1].reuse_id < procs[2].reuse_id
    /\ procs[1].timed_out
    /\ procs[1].result = procs[1].created /\ procs[1].created # 0
    /\ procs[2].result = 1
    /\ conns[1].state = "abandoned"

----------------------------------------------------------------------------
\* Properties of receive_reuse_message (checked under SpecPeer).

\* The steps of a receive_reuse_message call: its first lookup, its second
\* lookup, its send.
FindStep == hret.pc = "idle" /\ hret'.op = "reuse" /\ hret'.pc # "idle"
FindByDidStep == hret.pc = "find_did" /\ hret'.pc # "find_did"
SendStep == hret.pc = "send" /\ hret'.pc = "idle"

ActiveWithInvitation(store, id) ==
    \E i \in 1..Len(store) :
        store[i].invitation_msg_id = id /\ store[i].state = "active"

ActiveWithTheirDid(store, did) ==
    \E i \in 1..Len(store) :
        store[i].their_did = did /\ store[i].state = "active"

IsReuseAccept(m) == m.type = "handshake-reuse-accept"

\* C17 as stated: whenever receive_reuse_message has found an active
\* connection, by invitation id or by sender DID, exactly one reuse-accept
\* is sent.
C17_Original ==
    [][SendStep => (Len(outbox') = 1 /\ IsReuseAccept(outbox'[1]))]_vars

\* C17, corrected: receive_reuse_message looks for an active connection by
\* the invitation id of the reuse message and, only when that lookup found
\* none, by the sender's DID.  For the connection found, when a responder is
\* available, it sends exactly one reuse-accept, with the reuse message's
\* thread id and the invitation id as parent thread id; without a
\* responder it sends nothing.  A reuse-accept is sent by nothing else and
\* only for a connection that is active, and the call changes no
\* connection record.
C17_ReuseAccept ==
    [][/\ (FindStep \/ FindByDidStep \/ SendStep) => conns' = conns
       /\ FindStep
            => /\ (hret'.pc = "send")
                     <=> ActiveWithInvitation(conns, hret'.pthid)
               /\ (hret'.pc = "send")
                     => /\ conns[hret'.conn].invitation_msg_id = hret'.pthid
                        /\ conns[hret'.conn].state = "active"
               /\ outbox' = <<>>
       /\ FindByDidStep
            => /\ hret.conn = 0
               /\ (hret'.pc = "send")
                     <=> ActiveWithTheirDid(conns, hret.sender)
               /\ (hret'.pc = "send")
                     => /\ conns[hret'.conn].their_did = hret.sender
                        /\ conns[hret'.conn].state = "active"
               /\ outbox' = <<>>
       /\ SendStep
            => /\ conns[hret.conn].state = "active"
               /\ settings.responder
                     => outbox' = <<[type |-> "handshake-reuse-accept",
                                     thid |-> hret.thid, pthid |-> hret.pthid,
                                     to |-> hret.conn]>>
               /\ ~settings.responder => outbox' = <<>>
       /\ (\E i \in 1..Len(outbox') : IsReuseAccept(outbox'[i])) => SendStep]_vars

\* C17 happens: a reuse-accept has been sent for a connection found by
\* the sender's DID, the invitation id of the reuse message matching none.
C17_Witness ==
    /\ hret.op = "reuse" /\ hret.pc = "idle"
    /\ Len(outbox) = 1
    /\ IsReuseAccept(outbox[1])
    /\ outbox[1].thid = hret.thid /\ outbox[1].pthid = hret.pthid
    /\ conns[hret.conn].state = "active"
    /\ conns[hret.conn].invitation_msg_id # hret.pthid
    /\ conns[hret.conn].their_did = hret.sender

\* C17's first case happens: the connection was found by invitation id.
C17_WitnessByInvitation ==
    /\ hret.op = "reuse" /\ hret.pc = "idle"
    /\ Len(outbox) = 1
    /\ IsReuseAccept(outbox[1])
    /\ conns[hret.conn].invitation_msg_id = hret.pthid
    /\ hret.sender # conns[hret.conn].their_did

\* C18 as stated: a receive_reuse_message call that finds no active
\* connection, by invitation id or by sender DID, fails with
\* NoExistingConnection and sends no acceptance.
C18_Original ==
    [][(FindByDidStep /\ hret'.pc = "idle")
          => (hret'.err = NoExistingConnection /\ outbox' = <<>>)]_vars

\* C18, the part that holds: such a call sends nothing and changes nothing.
C18_NothingSent ==
    [][(FindByDidStep /\ hret'.pc = "idle")
          => /\ hret.conn = 0
             /\ ~ActiveWithTheirDid(conns, hret.sender)
             /\ outbox' = <<>>
             /\ conns' = conns]_vars

\* C18 fails: a call has ended without an error although the only
\* connection of the invitation and of the sender is not active.
C18_Witness ==
    /\ hret.op = "reuse" /\ hret.pc = "idle"
    /\ hret.conn = 0
    /\ hret.err = ErrNone
    /\ outbox = <<>>
    /\ Len(conns) = 1
    /\ conns[1].state = "request"
    /\ conns[1].invitation_msg_id = hret.pthid
    /\ conns[1].their_did = hret.sender

----------------------------------------------------------------------------
\* Properties of the attachment dispatch (checked under SpecSolo).

Structured(att) == att.kind = "decorator"

\* The call in slot 1 has ended after reaching "Request Attach" with an
\* attachment and a connection.
Dispatched(pr) ==
    pr.pc = "done" /\ pr.inv.requests_attach # <<>> /\ pr.conn_rec # 0

\* C21 as stated: once a call has ended having reached the dispatch, a first
\* attachment that is not structured made it fail with MalformedAttachment,
\* a structured one whose unqualified type is one of the four made it invoke
\* exactly that handler, once, on a connection the call created or reused,
\* and any other structured one made it fail with UnsupportedAttachmentType.
\* Not so: a structured attachment without data invokes no handler.
C21_Original ==
    LET pr == procs[1]
        atts == pr.inv.requests_attach
    IN  Dispatched(pr) =>
          /\ ~Structured(atts[1]) => pr.err = MalformedAttachment
          /\ (Structured(atts[1]) /\ Unqualify(atts[1].type) \in AttachHandlers)
                => /\ Len(pr.events) = 1
                   /\ pr.events[1].op = Unqualify(atts[1].type)
          /\ (Structured(atts[1]) /\ Unqualify(atts[1].type) \notin AttachHandlers)
                => pr.err = UnsupportedAttachmentType

\* C21: a call that has ended has invoked at most one handler, and only
\* on a connection it created or reused and for the first attachment,
\* which then is structured, carries data and has the handler's name as its
\* unqualified type.  Of the calls that reached the dispatch, a first
\* attachment that is not structured fails the call with
\* MalformedAttachment; a structured one with data invokes exactly the
\* handler of its unqualified type or, if that is none of the four, fails
\* the call with UnsupportedAttachmentType; a structured one without data
\* invokes nothing and the call returns the connection.
C21_Dispatch ==
    LET pr == procs[1]
        atts == pr.inv.requests_attach
    IN  pr.pc = "done" =>
          /\ Len(pr.events) <= 1
          /\ pr.events # <<>> =>
                /\ atts # <<>>
                /\ pr.conn_rec # 0
                /\ pr.conn_rec \in {pr.cand, pr.created}
                /\ pr.events[1].conn = pr.conn_rec
                /\ Structured(atts[1]) /\ atts[1].data
                /\ pr.events[1].op = Unqualify(atts[1].type)
                /\ pr.events[1].op \in AttachHandlers
          /\ Dispatched(pr) =>
                /\ ~Structured(atts[1])
                      => pr.err = MalformedAttachment /\ pr.events = <<>>
                /\ (Structured(atts[1]) /\ ~atts[1].data)
                      => /\ pr.events = <<>>
                         /\ pr.err = ErrNone
                         /\ pr.result = pr.conn_rec
                /\ (Structured(atts[1]) /\ atts[1].data
                    /\ Unqualify(atts[1].type) \in AttachHandlers)
                      => Len(pr.events) = 1
                /\ (Structured(atts[1]) /\ atts[1].data
                    /\ Unqualify(atts[1].type) \notin AttachHandlers)
                      => pr.err = UnsupportedAttachmentType /\ pr.events = <<>>
          /\ pr.err = MalformedAttachment
                => Dispatched(pr) /\ ~Structured(atts[1])
          /\ pr.err = UnsupportedAttachmentType
                => /\ Dispatched(pr)
                   /\ Structured(atts[1])
                   /\ Unqualify(atts[1].type) \notin AttachHandlers

\* C21 witness: a call on an invitation with two attachments has returned
\* after invoking the handler of the first one only.
C21_Witness ==
    /\ procs[1].pc = "done"
    /\ Len(procs[1].inv.requests_attach) = 2
    /\ Len(procs[1].events) = 1
    /\ procs[1].err = ErrNone

\* C21 witness: a call has failed on an attachment of another type.
C21_WitnessUnsupported ==
    /\ Dispatched(procs[1])
    /\ procs[1].err = UnsupportedAttachmentType

IsCredOffer(att) ==
    /\ Structured(att) /\ att.data
    /\ Unqualify(att.type) \in {"cred_v1", "cred_v2"}

IsCredRequest(m) == m.type = "credential-request"

\* C22 as stated: with auto-respond to credential offers not configured, a
\* call on an invitation whose first attachment is a credential offer ends
\* of a valid shape ends with AutoRespondDisabled.  Not so for the calls
\* that reach the dispatch without a connection.
C22_Original ==
    LET pr == procs[1]
    IN  (/\ ~settings.auto_respond_credential_offer
         /\ pr.pc = "done"
         /\ ReceiveShapeError(pr.inv) = ErrNone
         /\ IsCredOffer(pr.inv.requests_attach[1]))
        => pr.err = AutoRespondDisabled

\* C22: with auto-respond to credential offers not configured, no
\* credential request is ever sent, and a call that reached the dispatch
\* with a connection and a credential offer (v1 or v2) as first attachment
\* has failed with AutoRespondDisabled, whatever auto_accept was and
\* whether the connection was ready.
C22_CredOfferDisabled ==
    LET pr == procs[1]
    IN  ~settings.auto_respond_credential_offer =>
          /\ \A i \in 1..Len(outbox) : ~IsCredRequest(outbox[i])
          /\ (Dispatched(pr) /\ IsCredOffer(pr.inv.requests_attach[1]))
                => pr.err = AutoRespondDisabled /\ pr.result = 0

\* C22 witness: such a call has failed although auto_accept was given, the
\* connection was ready and a responder was there.
C22_Witness ==
    /\ ~settings.auto_respond_credential_offer
    /\ settings.responder
    /\ Dispatched(procs[1])
    /\ IsCredOffer(procs[1].inv.requests_attach[1])
    /\ procs[1].auto_accept = "true"
    /\ procs[1].conn_ready
    /\ procs[1].err = AutoRespondDisabled

\* The step of the call in slot 1 that runs a credential-offer handler.
CredStep == procs[1].pc = "cred" /\ procs'[1].pc = "done"

\* C23: a credential request is sent only by the step that runs a
\* credential-offer handler, and only if auto-respond is configured and the
\* connection is ready then; that step has received the offer on the
\* connection in any case; and with auto-respond configured and the
\* connection not ready it returns the connection without error and sends
\* nothing.
C23_CredRequestOnlyWhenReady ==
    [][LET c == procs[1].conn_rec
           att == procs[1].inv.requests_attach[1]
       IN  /\ (\E i \in 1..Len(outbox') : IsCredRequest(outbox'[i])) => CredStep
           /\ CredStep =>
                /\ procs'[1].events = <<ExchangeEvent(Unqualify(att.type), c)>>
                /\ (\E i \in 1..Len(outbox') : IsCredRequest(outbox'[i]))
                      => /\ settings.auto_respond_credential_offer
                         /\ IsReady(conns[c])
                         /\ outbox' = <<CredRequestMessage(c)>>
                /\ (settings.auto_respond_credential_offer /\ ~IsReady(conns[c]))
                      => /\ procs'[1].err = ErrNone
                         /\ procs'[1].result = c
                         /\ outbox' = <<>>]_vars

\* C23 witness: with auto-respond configured and a responder there, a call
\* whose activation wait timed out has returned the connection it made,
\* which is not ready, after receiving the offer.
C23_Witness ==
    /\ settings.auto_respond_credential_offer
    /\ settings.responder
    /\ Dispatched(procs[1])
    /\ IsCredOffer(procs[1].inv.requests_attach[1])
    /\ procs[1].auto_accept = "true"
    /\ ~procs[1].conn_ready
    /\ ~IsReady(conns[procs[1].conn_rec])
    /\ Len(procs[1].events) = 1
    /\ procs[1].err = ErrNone
    /\ procs[1].result = procs[1].created
    /\ procs[1].created # 0

\* C23 witness: a credential request has been sent.
C23_WitnessSent ==
    \E i \in 1..Len(outbox) : IsCredRequest(outbox[i])

IsPresRequest(att) ==
    /\ Structured(att) /\ att.data
    /\ Unqualify(att.type) \in {"pres_v1", "pres_v2"}

IsPresentation(m) == m.type = "presentation"

\* The step of the call in slot 1 that runs a proof-request handler.
PresStep ==
    /\ procs[1].pc = "attach" /\ procs'[1].pc = "done"
    /\ procs[1].conn_rec # 0
    /\ procs[1].inv.requests_attach # <<>>
    /\ IsPresRequest(procs[1].inv.requests_attach[1])

\* C24 as stated: a presentation is sent only by the step that runs a
\* proof-request handler and only if auto-present is configured; that step
\* has received the request in any case; without auto-present it fails with
\* AutoRespondDisabled and sends nothing; with auto-present its only failure
\* is CannotAutoPresent, and then nothing is sent.  Not so for a v2 request:
\* the error of create_pres comes through as it is.
C24_Original ==
    [][LET c == procs[1].conn_rec
           att == procs[1].inv.requests_attach[1]
       IN  /\ (\E i \in 1..Len(outbox') : IsPresentation(outbox'[i])) => PresStep
           /\ PresStep =>
                /\ procs'[1].events = <<ExchangeEvent(Unqualify(att.type), c)>>
                /\ (\E i \in 1..Len(outbox') : IsPresentation(outbox'[i]))
                      => /\ settings.auto_respond_presentation_request
                         /\ procs'[1].err = ErrNone
                /\ ~settings.auto_respond_presentation_request
                      => procs'[1].err = AutoRespondDisabled /\ outbox' = <<>>
                /\ settings.auto_respond_presentation_request
                      => procs'[1].err \in {ErrNone, CannotAutoPresent}
                /\ procs'[1].err # ErrNone => outbox' = <<>>]_vars

\* C24, for what holds: the same, with the failure of an automatic
\* presentation being CannotAutoPresent for a v1 request and the error of
\* create_pres for a v2 request.
C24_PresentationOnlyIfConfigured ==
    [][LET c == procs[1].conn_rec
           att == procs[1].inv.requests_attach[1]
       IN  /\ (\E i \in 1..Len(outbox') : IsPresentation(outbox'[i])) => PresStep
           /\ PresStep =>
                /\ procs'[1].events = <<ExchangeEvent(Unqualify(att.type), c)>>
                /\ (\E i \in 1..Len(outbox') : IsPresentation(outbox'[i]))
                      => /\ settings.auto_respond_presentation_request
                         /\ procs'[1].err = ErrNone
                /\ ~settings.auto_respond_presentation_request
                      => procs'[1].err = AutoRespondDisabled /\ outbox' = <<>>
                /\ settings.auto_respond_presentation_request
                      => procs'[1].err \in
                           {ErrNone,
                            IF Unqualify(att.type) = "pres_v1"
                            THEN CannotAutoPresent ELSE CreatePresError}
                /\ procs'[1].err # ErrNone => outbox' = <<>>]_vars

\* C24 witness: with auto-present configured, a call on a v2 proof request
\* has failed with an error that is not CannotAutoPresent, after receiving
\* the request.
C24_Witness ==
    /\ settings.auto_respond_presentation_request
    /\ Dispatched(procs[1])
    /\ IsPresRequest(procs[1].inv.requests_attach[1])
    /\ Len(procs[1].events) = 1
    /\ procs[1].err = CreatePresError

\* C24 witness: a v1 request has failed with CannotAutoPresent.
C24_WitnessV1 ==
    /\ settings.auto_respond_presentation_request
    /\ Dispatched(procs[1])
    /\ Len(procs[1].events) = 1
    /\ procs[1].err = CannotAutoPresent

----------------------------------------------------------------------------
\* Properties of progress (checked under SpecLive).

\* The kinds of error the manager raises as OutOfBandManagerError.
EngineErrors ==
    {InvalidInvitationShape, UnsupportedAttachmentType, MalformedAttachment,
     AutoRespondDisabled, CannotAutoPresent, NoHandshakeProtocolAvailable,
     ReuseNegotiationFailed}

InCall == procs[1].pc \notin {"idle", "done"}

\* C25 as stated: every call eventually returns or fails with an engine
\* error.  Not so: the error of create_pres (see C24) is none of them.
C25_Original ==
    InCall ~> (procs[1].pc = "done" /\ procs[1].err \in {ErrNone} \cup EngineErrors)

\* C25, for what holds: every call eventually ends, whatever the peer does.
C25_Terminates == InCall ~> procs[1].pc = "done"

\* C25, for what holds: a call whose reuse wait timed out has gone on to a
\* new connection and ended without error, and a call whose activation wait
\* timed out ends without error or with AutoRespondDisabled.
C25_TimeoutNotSurfaced ==
    LET pr == procs[1]
    IN  pr.pc = "done" =>
          /\ pr.timed_out => pr.err = ErrNone /\ pr.result = pr.created
          /\ (/\ Dispatched(pr)
              /\ IsCredOffer(pr.inv.requests_attach[1])
              /\ pr.auto_accept = "true"
              /\ ~pr.conn_ready)
                => pr.err \in {ErrNone, AutoRespondDisabled}

\* C25 witness: a call whose reuse wait timed out without an answer has
\* ended.
C25_Witness ==
    /\ procs[1].pc = "done"
    /\ procs[1].timed_out
    /\ procs[1].no_answer
    /\ procs[1].created # 0

\* C25 witness: a call has ended with an error that is no engine error.
C25_WitnessForeignError ==
    /\ procs[1].pc = "done"
    /\ procs[1].err \notin {ErrNone} \cup EngineErrors

----------------------------------------------------------------------------
\* Properties of the mediation lookup (checked under SpecMediation).

\* A call of create_invitation / receive_invitation was given a mediation
\* id that names no record.
CreateUnknownMediation == ret.calls > 0 /\ ret.args.mediation_id = "unknown"
ReceiveUnknownMediation ==
    procs[1].pc # "idle" /\ procs[1].mediation_arg = "unknown"

\* C26 as stated: neither operation fails on a mediation id that names no
\* record, and the connection made from a received invitation carries no
\* mediation id.  Not so for create_invitation.
C26_Original ==
    /\ CreateUnknownMediation => ret.err # StorageNotFound
    /\ ReceiveUnknownMediation =>
          /\ procs[1].err # StorageNotFound
          /\ procs[1].mediation_id = None
          /\ procs[1].created # 0
                => conns[procs[1].created].meta.mediation = None

\* C26: receive_invitation goes on without a mediation id when the one
\* given names no record: the call does not fail on it and the handshake
\* strategy is given none; create_invitation fails with the store's
\* not-found error and stores nothing.
C26_MediationDegraded ==
    /\ ReceiveUnknownMediation =>
          /\ procs[1].err # StorageNotFound
          /\ procs[1].mediation_id = None
          /\ procs[1].created # 0
                => conns[procs[1].created].meta.mediation = None
    /\ CreateUnknownMediation =>
          /\ ret.err = StorageNotFound
          /\ ret.conn_id = 0
          /\ ret.rec = NoInvitationRecord

\* C26 witness: a call of receive_invitation given such an id has returned
\* the connection it made, which carries no mediation id.
C26_Witness ==
    /\ ReceiveUnknownMediation
    /\ procs[1].pc = "done"
    /\ procs[1].err = ErrNone
    /\ procs[1].created # 0
    /\ procs[1].result = procs[1].created
    /\ conns[procs[1].created].meta.mediation = None

\* C26 witness: a call of create_invitation given such an id has failed.
C26_WitnessCreate ==
    CreateUnknownMediation /\ ret.err = StorageNotFound

----------------------------------------------------------------------------
\* Properties of the reuse set-up (checked under SpecSetup for one
\* invocation at a time, under SpecDuo for two).

\* Steps of create_handshake_reuse_message in slot 1: the send, and the
\* step that ends the set-up (the second metadata write, or the first step
\* when there is no responder).
ReuseSendStep == procs[1].pc = "reuse_send" /\ procs'[1].pc # "reuse_send"
SetupDoneStep ==
    procs[1].pc \in {"reuse_send", "reuse_set_state"} /\ procs'[1].pc = "wait"

\* C28 as stated: when the set-up of the call in slot 1 ends after a send,
\* the candidate's reuse_msg_id is the id of the message that call sent and
\* its reuse_msg_state is "initial".  Not so when another call negotiates
\* on the same connection at the same time (see C14).
C28_Original ==
    [][(SetupDoneStep /\ procs'[1].reuse_sent)
          => /\ conns'[procs[1].conn_rec].meta.reuse_msg_id = procs'[1].reuse_id
             /\ conns'[procs[1].conn_rec].meta.reuse_msg_state = "initial"]_vars

\* C28, for one invocation at a time: the reuse message sent is threaded under the invitation id stored
\* on the candidate; when the set-up ends after a send, the candidate's
\* reuse_msg_id is the id of that message and its reuse_msg_state is
\* "initial"; when it ends without a send, nothing was written; and a step
\* of the call writes a reuse id or "initial" only after a send.
C28_ReuseSetup ==
    [][LET c == procs[1].conn_rec
       IN  /\ (ReuseSendStep /\ outbox' # <<>>)
                => /\ procs'[1].reuse_sent
                   /\ outbox' = <<HandshakeReuse(procs'[1].reuse_id,
                                                 conns[c].invitation_msg_id, c)>>
           /\ (ReuseSendStep /\ outbox' = <<>>)
                => ~procs'[1].reuse_sent /\ conns' = conns
           /\ (SetupDoneStep /\ procs'[1].reuse_sent)
                => /\ conns'[c].meta.reuse_msg_id = procs'[1].reuse_id
                   /\ conns'[c].meta.reuse_msg_state = "initial"
           /\ (SetupDoneStep /\ ~procs'[1].reuse_sent)
                => conns'[c].meta = conns[c].meta /\ ~procs'[1].set_initial
           /\ (OwnStep /\ c # 0 /\ c \in 1..Len(conns')
               /\ conns'[c].meta # conns[c].meta
               /\ \/ conns'[c].meta.reuse_msg_id # 0
                  \/ conns'[c].meta.reuse_msg_state = "initial")
                => procs[1].reuse_sent]_vars

\* C28 witness: the set-up of the call in slot 1 has ended after a send, and
\* the id stored on the candidate is the one the call in slot 2 sent.
C28_Witness ==
    /\ procs[1].pc = "wait"
    /\ procs[1].reuse_sent /\ procs[1].set_initial
    /\ procs[2].reuse_sent
    /\ procs[2].conn_rec = procs[1].conn_rec
    /\ conns[procs[1].conn_rec].meta.reuse_msg_id = procs[2].reuse_id
    /\ procs[2].reuse_id # procs[1].reuse_id

\* C28 witness: the set-up has ended after a send for an invitation whose id
\* is not the one stored on the candidate.
C28_WitnessSolo ==
    /\ procs[1].pc = "wait"
    /\ procs[1].reuse_sent /\ procs[1].set_initial
    /\ procs[1].inv.id # conns[procs[1].conn_rec].invitation_msg_id
    /\ conns[procs[1].conn_rec].meta.reuse_msg_id = procs[1].reuse_id
    /\ conns[procs[1].conn_rec].meta.reuse_msg_state = "initial"

\* C28 witness: the set-up has ended without a send and without metadata.
C28_WitnessNotSent ==
    /\ procs[1].pc = "wait"
    /\ ~procs[1].reuse_sent
    /\ conns[procs[1].conn_rec].meta.reuse_msg_id = 0
    /\ conns[procs[1].conn_rec].meta.reuse_msg_state = None

----------------------------------------------------------------------------
\* Properties of the reuse sub-state (checked under SpecSolo).

ReuseStates == {"initial", "accepted", "not_accepted"}

\* The edges of the reuse sub-state: set-up, an answer, resolution, timeout.
ReuseEdge(a, b) ==
    \/ a = None /\ b = "initial"
    \/ a = "initial" /\ b \in {"accepted", "not_accepted"}
    \/ a \in {"accepted", "not_accepted"} /\ b = None
    \/ a = "initial" /\ b = None

\* C29 as stated: reuse_msg_state of a connection is absent or one of
\* initial, accepted, not_accepted, and it changes along the edges only; in
\* particular an answer never replaces the other answer.  Not so: the
\* handlers look at the thread id only, not at the state they overwrite.
C29_Original ==
    [][\A c \in 1..Len(conns) :
          LET a == conns[c].meta.reuse_msg_state
              b == conns'[c].meta.reuse_msg_state
          IN  /\ b \in ReuseStates \cup {None}
              /\ a # b => ReuseEdge(a, b)]_vars

\* C29, for what holds: reuse_msg_state is absent or one of the three
\* values, "initial" is written by the set-up only, and an answer is
\* written only by a handler whose message carried the stored thread id
\* when it was read.
C29_StateValues ==
    [][\A c \in 1..Len(conns) :
          LET a == conns[c].meta.reuse_msg_state
              b == conns'[c].meta.reuse_msg_state
          IN  /\ b \in ReuseStates \cup {None}
              /\ (a # b /\ b = "initial")
                    => procs[1].pc = "reuse_set_state" /\ procs[1].conn_rec = c
              /\ (a # b /\ b \in {"accepted", "not_accepted"})
                    => /\ hret.pc = "set" /\ hret.conn = c
                       /\ b = StateWritten(hret.op)]_vars

\* C29 witness: a problem report has passed the thread guard on a
\* connection whose reuse_msg_state is "accepted", and is about to write.
C29_Witness ==
    /\ hret.pc = "set"
    /\ hret.op = "problem-report"
    /\ conns[hret.conn].meta.reuse_msg_state = "accepted"
    /\ conns[hret.conn].meta.reuse_msg_id = hret.thid

----------------------------------------------------------------------------
\* Properties of the choice of a candidate (checked under SpecSelect).

\* store[i] is an active connection of the public DID.
ActiveOf(store, i, did) ==
    store[i].their_public_did = did /\ store[i].state = "active"

\* C30: the candidate of a call is an active connection of the public DID
\* its invitation's service names, the first such in store order, and there
\* is none when the service is an inline block or no such connection
\* exists; only the candidate is ever used, negotiated on or changed; a
\* call on an invitation with an inline block sends no reuse message and
\* changes no connection that existed.
C30_Candidate ==
    [][/\ (ReceiveStep /\ ReceiveShapeError(procs'[1].inv) = ErrNone) =>
             LET service == procs'[1].inv.services[1]
                 cand == procs'[1].cand
             IN  /\ cand # 0 =>
                       /\ service.kind = "did"
                       /\ ActiveOf(conns, cand, service.did[Len(service.did)])
                       /\ \A j \in 1..(cand - 1) :
                             ~ActiveOf(conns, j, service.did[Len(service.did)])
                 /\ cand = 0 =>
                       \/ service.kind = "inline"
                       \/ \A j \in 1..Len(conns) :
                             ~ActiveOf(conns, j, service.did[Len(service.did)])
                 /\ procs'[1].conn_rec \in {0, cand}
       /\ OwnStep =>
             /\ \A c \in 1..Len(conns) :
                   conns'[c] # conns[c] => c = procs[1].cand
             /\ ~NoReuseMessage(outbox') =>
                   /\ procs[1].cand # 0
                   /\ outbox'[1].to = procs[1].cand
       /\ (OwnStep /\ ReceiveShapeError(procs'[1].inv) = ErrNone
           /\ procs'[1].inv.services[1].kind = "inline") =>
             /\ procs'[1].cand = 0
             /\ NoReuseMessage(outbox')
             /\ \A c \in 1..Len(conns) : conns'[c] = conns[c]]_vars

\* C30 witness: a call negotiates on the second record, the first one being
\* a connection of the same public DID that is not active.
C30_Witness ==
    /\ procs[1].pc = "wait"
    /\ procs[1].cand = 2
    /\ conns[1].their_public_did = PeerDid
    /\ conns[1].state # "active"
    /\ conns[2].their_public_did = PeerDid

\* C30 witness: two active connections of the public DID, the first chosen.
C30_WitnessFirst ==
    /\ procs[1].pc = "wait"
    /\ procs[1].cand = 1
    /\ ActiveOf(conns, 2, PeerDid)

\* C30 witness: a call on an invitation with an inline block has made a new
\* connection although an active one of PeerDid existed.
C30_WitnessInline ==
    /\ procs[1].pc = "done"
    /\ procs[1].inv.services[1].kind = "inline"
    /\ procs[1].created = 3
    /\ ActiveOf(conns, 1, PeerDid)

----------------------------------------------------------------------------
\* create_invitation exercised on its routing: with and without an endpoint
\* override, a mediation id, a default mediator and a base-wallet mediator.

RoutingArgs ==
    [public : BOOLEAN, multi_use : BOOLEAN,
     hs_protos : {<<"didexchange">>},
     attachments : {<<>>},
     metadata : {NoMetadata},
     mediation_id : {None, "m1"},
     my_endpoint : {None, "ep_arg"}, auto_accept : {None}]

RoutingSettings ==
    {[BaseSettings EXCEPT !.multitenant = mt, !.base_mediator = mt /\ bm,
                          !.default_mediator = dm, !.responder = rs] :
        mt \in BOOLEAN, bm \in BOOLEAN, dm \in BOOLEAN, rs \in BOOLEAN}

InitRouting ==
    /\ settings \in RoutingSettings
    /\ conns = <<>>
    /\ nextId = 1
    /\ routing = NoRouting
    /\ outbox = <<>>
    /\ ret = NoCall
    /\ hret = NoHandlerCall
    /\ procs = <<>>

RoutingCall == \E a \in RoutingArgs : CreateInvitation(a)

NextRouting == RoutingCall

SpecRouting == InitRouting /\ [][NextRouting]_vars

----------------------------------------------------------------------------
\* Properties of the service block and of the key-list updates (checked
\* under SpecRouting).

\* The last call returned a pairwise invitation.
PairwiseReturned == ret.err = ErrNone /\ ~ret.args.public

\* The base wallet's default mediator applies to the profile.
BaseApplies == settings.multitenant /\ settings.base_mediator

\* The mediation record the last call ran with, None if none.
TenantMediation == MediationRecordIfId(ret.args.mediation_id, TRUE, settings)

\* The routing keys as the records hold them: the base mediator's, then the
\* mediation record's.
LayeredKeys ==
    (IF BaseApplies THEN MediationRecords.mb.routing_keys ELSE <<>>)
    \o (IF TenantMediation # None
        THEN MediationRecords[TenantMediation].routing_keys ELSE <<>>)

\* C31: the service block of a pairwise invitation carries the base
\* mediator's routing keys (sub-tenant with such a mediator only) followed
\* by the mediation record's; its endpoint is the mediation record's, else
\* the base mediator's, else the override, else the default endpoint; and
\* every routing key in it is a did:key, one that was a did:key unchanged.
C31_ServiceBlock ==
    PairwiseReturned =>
        LET service == ret.rec.invitation.services[1]
        IN  /\ Len(ret.rec.invitation.services) = 1
            /\ service.kind = "inline"
            /\ Len(service.routing_keys) = Len(LayeredKeys)
            /\ \A i \in 1..Len(LayeredKeys) :
                  /\ service.routing_keys[i].did
                  /\ service.routing_keys[i].k = LayeredKeys[i].k
                  /\ LayeredKeys[i].did => service.routing_keys[i] = LayeredKeys[i]
            /\ service.endpoint =
                  IF TenantMediation # None
                  THEN MediationRecords[TenantMediation].endpoint
                  ELSE IF BaseApplies THEN MediationRecords.mb.endpoint
                  ELSE IF ret.args.my_endpoint # None THEN ret.args.my_endpoint
                  ELSE "ep_default"

\* C31 witness: a sub-tenant with a base mediator made a pairwise invitation
\* with a mediation record; both records' keys are in the block.
C31_Witness ==
    /\ PairwiseReturned
    /\ BaseApplies
    /\ TenantMediation = "m1"
    /\ Len(ret.rec.invitation.services[1].routing_keys) = 2

\* C31 witness: the default mediator's key, a did:key already, is embedded.
C31_WitnessDidKey ==
    /\ PairwiseReturned
    /\ TenantMediation = "m0"
    /\ ret.rec.invitation.services[1].routing_keys
            = MediationRecords.m0.routing_keys

\* C31 witness: no mediator applies and the override is the endpoint.
C31_WitnessOverride ==
    /\ PairwiseReturned
    /\ ~BaseApplies
    /\ TenantMediation = None
    /\ ret.rec.invitation.services[1].endpoint = "ep_arg"

\* The last call passed every check made before its first side effect.
CallRan == ret.calls > 0 /\ CreateEarlyError(ret.args, settings) = ErrNone

\* Key-list updates were produced (mediation_mgr.add_key) for a mediation
\* record and not dropped in favour of the base mediator.
UpdatesPending ==
    /\ TenantMediation # None
    /\ ret.args.public \/ ~BaseApplies

\* The last step handed one key-list update to the responder, addressed to
\* the mediation record's connection.
SentToMediator ==
    /\ Len(outbox) = 1
    /\ outbox[1].type = "keylist-update"
    /\ outbox[1].to = MediationRecords[TenantMediation].connection_id

\* C32, as stated: pending key-list updates are sent to the mediator's
\* connection before create_invitation returns when a responder is
\* available; without a responder they are skipped and the call raises
\* nothing; a sub-tenant whose base wallet has a default mediator sends no
\* key-list update.
C32_Original ==
    CallRan =>
        /\ (UpdatesPending /\ settings.responder) =>
              ret.err = ErrNone /\ SentToMediator
        /\ ~settings.responder => ret.err = ErrNone /\ outbox = <<>>
        /\ (~ret.args.public /\ BaseApplies) => outbox = <<>>

\* C32, for what holds: only the pairwise path sends, and only with a
\* mediation record and no base mediator; it then sends to the record's
\* connection if a responder exists and fails with AttributeError, the
\* connection record already stored, if none exists.
C32_KeylistDispatch ==
    CallRan =>
        LET sending == ~ret.args.public /\ TenantMediation # None /\ ~BaseApplies
        IN  /\ (sending /\ settings.responder) =>
                  ret.err = ErrNone /\ SentToMediator
            /\ (sending /\ ~settings.responder) =>
                  /\ ret.err = NoResponder
                  /\ outbox = <<>>
                  /\ ret.conn_id # 0
                  /\ conns[ret.conn_id].meta.mediation = TenantMediation
            /\ ~sending => ret.err = ErrNone /\ outbox = <<>>

\* C32 witness: a pairwise call with a mediation record and no responder has
\* ended in AttributeError.
C32_Witness ==
    /\ CallRan
    /\ ~ret.args.public
    /\ TenantMediation = "m1"
    /\ ~settings.responder
    /\ ret.err = NoResponder

\* C32 witness: a public invitation was returned for a call with a mediation
\* record and a responder, and nothing was sent.
C32_WitnessPublic ==
    /\ CallRan
    /\ ret.args.public
    /\ UpdatesPending
    /\ settings.responder
    /\ ret.err = ErrNone
    /\ outbox = <<>>

\* C32 witness: a sub-tenant with a base mediator and a mediation record
\* returned a pairwise invitation and sent nothing.
C32_WitnessBase ==
    /\ PairwiseReturned
    /\ BaseApplies
    /\ TenantMediation # None
    /\ outbox = <<>>

----------------------------------------------------------------------------
\* Properties of the reuse decision after the wait (checked under SpecSolo).

\* The call in slot 1, on an invitation with handshake protocols and no
\* attachment, has returned the candidate it found.
CandidateReturned(pr) ==
    /\ pr.pc = "done"
    /\ pr.err = ErrNone
    /\ pr.protos # <<>>
    /\ pr.inv.requests_attach = <<>>
    /\ pr.cand # 0
    /\ pr.result = pr.cand

\* C33, as stated: a call on an invitation with handshake protocols and no
\* attachment returns the candidate only if its reuse message was sent and
\* the reuse_msg_state it read after the wait was "accepted"; it does not
\* return the candidate when there is no responder or when that state is
\* absent.
C33_Original ==
    CandidateReturned(procs[1]) =>
        /\ procs[1].reuse_sent
        /\ procs[1].msg_state = "accepted"
        /\ settings.responder

\* C33, for what holds: with a responder the candidate is returned only
\* after the message was sent, "initial" was recorded and "accepted" was
\* read; without one nothing is sent or recorded, the wait ends at its first
\* read, the state read is absent and the candidate is returned.
C33_ReuseOnlyIfAccepted ==
    CandidateReturned(procs[1]) =>
        IF settings.responder
        THEN /\ procs[1].reuse_sent
             /\ procs[1].set_initial
             /\ procs[1].msg_state = "accepted"
        ELSE /\ ~procs[1].reuse_sent
             /\ ~procs[1].set_initial
             /\ procs[1].msg_state = None

\* C33 witness: without a responder the candidate was returned, no reuse
\* message sent and the state read being absent.
C33_Witness ==
    /\ CandidateReturned(procs[1])
    /\ ~settings.responder
    /\ ~procs[1].reuse_sent
    /\ procs[1].msg_state = None
    /\ conns[procs[1].cand].state = "active"

\* C33 witness: with a responder the candidate was returned on "accepted".
C33_WitnessAccepted ==
    /\ CandidateReturned(procs[1])
    /\ settings.responder
    /\ procs[1].reuse_sent
    /\ procs[1].msg_state = "accepted"

----------------------------------------------------------------------------
\* Two interleaved invocations on invitations of PeerDid, with or without an
\* attached credential offer (auto-accepted, so that the call waits for the
\* connection to be ready before it hands the offer on).

MixCalls ==
    DuoCalls \cup
    {ReceiveCall(InvitationMessage(PeerInvitationId, <<Qualify("didexchange")>>,
                                   <<ReceivedAttachments.cred1>>,
                                   <<DidService(PeerDid)>>),
                 TRUE, "true", None)}

MixStart ==
    \E p \in Procs, c \in MixCalls :
        /\ procs[p].calls < MaxDuoCalls
        /\ ReceiveStart(p, c.inv, c.use_existing, c.auto_accept, c.mediation_id)

MixPollActive == \E p \in Procs : PollActive(p)
MixActiveTimeout == \E p \in Procs : ActiveTimeout(p)
MixCredOffer == \E p \in Procs : CredOffer(p)

NextMix ==
    \/ MixStart
    \/ DuoReuseSend
    \/ DuoReuseSetId
    \/ DuoReuseSetState
    \/ DuoReusePoll
    \/ DuoReuseTimeout
    \/ DuoReuseDelId
    \/ DuoReuseGetState
    \/ DuoReuseDelState
    \/ DuoNewConnection
    \/ DuoAttach
    \/ MixPollActive
    \/ MixActiveTimeout
    \/ MixCredOffer
    \/ Handshake
    \/ ReuseAccepted
    \/ ProblemReport
    \/ HandlerSetState

SpecMix == InitDuo /\ [][NextMix]_vars

----------------------------------------------------------------------------
\* Properties of interleaved invocations and abandoned connections (checked
\* under SpecMix).

\* The step ends the invocation in slot p.
ReturnStepOf(p) == procs[p].pc # "done" /\ procs'[p].pc = "done"

\* The step calls an exchange manager for the attachment of the invocation
\* in slot p.
DispatchStepOf(p) ==
    Len(procs'[p].events) = Len(procs[p].events) + 1

\* C34, as stated: whatever the interleaving, no call returns a connection
\* that is abandoned when the call returns, and no attachment is dispatched
\* on an abandoned connection.
C34_Original ==
    [][\A p \in Procs :
          /\ (ReturnStepOf(p) /\ procs'[p].err = ErrNone /\ procs'[p].result # 0)
                => conns'[procs'[p].result].state # "abandoned"
          /\ DispatchStepOf(p)
                => conns[procs'[p].events[Len(procs'[p].events)].conn].state
                       # "abandoned"]_vars

\* C34 fails: a call is about to return the candidate (its last step, the
\* delete of reuse_msg_state, is all that is left) and another call's
\* timeout has abandoned that connection.
C34_Witness ==
    \E p, q \in Procs :
        /\ procs[p].pc = "del_state"
        /\ procs[p].conn_rec = 1
        /\ procs[q].timed_out
        /\ conns[1].state = "abandoned"

\* C34 fails: a call is about to hand a credential offer to the credential
\* manager on the candidate, its wait for a ready connection over, and
\* another call's timeout has abandoned that connection.
C34_WitnessDispatch ==
    \E p, q \in Procs :
        /\ procs[p].pc = "cred"
        /\ procs[p].conn_rec = 1
        /\ procs[p].events = <<>>
        /\ procs[q].timed_out
        /\ conns[1].state = "abandoned"

----------------------------------------------------------------------------
\* Properties of what receive_invitation returns (checked under SpecSolo).

\* The call in slot 1 has returned without raising.
ReturnedNormally(pr) == pr.pc = "done" /\ pr.err = ErrNone

\* None of the handshake protocols the invitation declares is one the
\* dispatcher has a strategy for.
NoneRecognized(pr) ==
    pr.protos # <<>> /\ \A i \in 1..Len(pr.protos) : pr.protos[i] = None

\* C35, as stated: a call that returns without raising returns a connection
\* record, never an absent value, also when every handshake protocol the
\* invitation declares is unrecognized.
C35_Original ==
    ReturnedNormally(procs[1]) =>
        /\ procs[1].result # 0
        /\ procs[1].result \in 1..Len(conns)

\* C35, for what holds: a call that returns without raising returns a
\* stored connection, except when the invitation declares handshake
\* protocols of which none is recognized and no candidate is kept: then no
\* connection is created, the attachment is not processed and the call
\* returns None.
C35_ConnectionOrNone ==
    ReturnedNormally(procs[1]) =>
        IF procs[1].result # 0
        THEN procs[1].result \in 1..Len(conns)
        ELSE /\ NoneRecognized(procs[1])
             /\ procs[1].created = 0
             /\ procs[1].invoked = <<>>
             /\ procs[1].events = <<>>

\* C35 witness: a call on a shape-valid invitation whose only handshake
\* protocol is unrecognized has returned None without raising.
C35_Witness ==
    /\ ReturnedNormally(procs[1])
    /\ ReceiveShapeError(procs[1].inv) = ErrNone
    /\ NoneRecognized(procs[1])
    /\ procs[1].result = 0

\* C35 witness: the same with an attachment on the invitation, which is
\* left unprocessed.
C35_WitnessAttachment ==
    /\ ReturnedNormally(procs[1])
    /\ NoneRecognized(procs[1])
    /\ procs[1].inv.requests_attach # <<>>
    /\ procs[1].result = 0

----------------------------------------------------------------------------
\* Properties of the hand-off between the reuse set-up and the handlers
\* (checked under SpecSolo).

\* The positions of the call between the send of its reuse message and the
\* end of its wait.
AfterSend == {"reuse_set_id", "reuse_set_state", "wait"}

\* The last step was the guard of a reuse-accepted handler whose message is
\* threaded to the reuse message the call in slot 1 sent, the call being
\* between its send and the end of its wait.
AcceptProcessed ==
    /\ procs[1].reuse_sent
    /\ procs[1].pc \in AfterSend
    /\ hret.op = "reuse-accepted"
    /\ hret.conn = procs[1].conn_rec
    /\ hret.thid = procs[1].reuse_id
    /\ hret.pc = "set" \/ hret.err # ErrNone

\* C36, as stated: an accept threaded to the reuse message that was sent and
\* processed at any point after the send, before the wait is over, is not
\* lost: the handler lets it through, and no step of the call short of its
\* timeout removes the "accepted" it writes before the wait is over.
C36_Original ==
    [][/\ AcceptProcessed' => hret'.err = ErrNone
       /\ (/\ OwnStep /\ ~procs'[1].timed_out
           /\ procs[1].pc \in AfterSend
           /\ conns[procs[1].conn_rec].meta.reuse_msg_state = "accepted")
             => conns'[procs[1].conn_rec].meta.reuse_msg_state = "accepted"]_vars

\* C36, for what holds: an accept threaded to the reuse message is let
\* through once reuse_msg_id is recorded, and what it writes stays until
\* the call reads it or a problem report replaces it, provided "initial"
\* was recorded before the accept was processed.
C36_AcceptAfterSetup ==
    [][/\ (AcceptProcessed' /\ procs'[1].pc \in {"reuse_set_state", "wait"})
             => hret'.pc = "set"
       /\ (/\ OwnStep /\ ~procs'[1].timed_out
           /\ procs[1].pc = "wait"
           /\ conns[procs[1].conn_rec].meta.reuse_msg_state = "accepted")
             => /\ conns'[procs[1].conn_rec].meta.reuse_msg_state = "accepted"
                /\ procs'[1].pc = "del_id"]_vars

\* C36 witness: the accept was processed after the send and before
\* reuse_msg_id was recorded, and was refused.
C36_Witness ==
    /\ AcceptProcessed
    /\ procs[1].pc = "reuse_set_id"
    /\ hret.err = ReuseNegotiationFailed
    /\ conns[procs[1].conn_rec].meta.reuse_msg_state = None

\* C36 witness: the accept was processed and written between the two
\* recordings; the set-up is about to overwrite it with "initial".
C36_WitnessOverwritten ==
    /\ procs[1].pc = "reuse_set_state"
    /\ conns[procs[1].conn_rec].meta.reuse_msg_id = procs[1].reuse_id
    /\ conns[procs[1].conn_rec].meta.reuse_msg_state = "accepted"
    /\ hret.pc = "idle"

\* C36 witness: the accept was processed during the wait and let through.
C36_WitnessWait ==
    /\ AcceptProcessed
    /\ procs[1].pc = "wait"
    /\ hret.pc = "set"

----------------------------------------------------------------------------
\* Properties of an answer that comes late (checked under SpecSolo).

\* The negotiation of the call in slot 1 on its candidate is over: it was
\* set up, and reuse_msg_state has left "initial" by an answer, by the
\* call's own clean-up or by its timeout.
NegotiationOver ==
    /\ procs[1].reuse_sent
    /\ procs[1].set_initial
    /\ conns[procs[1].cand].meta.reuse_msg_state # "initial"

C37_LateAnswer ==
    [][/\ (GuardStep /\ conns[hret'.conn].meta.reuse_msg_id = 0)
            => /\ hret'.pc # "set"
               /\ hret'.err = ReuseNegotiationFailed
               /\ conns' = conns
       /\ (GuardStep \/ WriteStep) =>
            /\ \A c \in 1..Len(conns) : conns'[c].state = conns[c].state
            /\ procs[1].created # 0 =>
                  conns'[procs[1].created] = conns[procs[1].created]
       /\ (GuardStep /\ procs[1].created # 0 /\ hret'.conn = procs[1].created)
            => hret'.pc # "set"]_vars

C37_WitnessAfterTimeout ==
    /\ procs[1].timed_out
    /\ procs[1].created # 0
    /\ conns[procs[1].cand].state = "abandoned"
    /\ hret.op = "reuse-accepted"
    /\ hret.conn = procs[1].cand
    /\ hret.thid = procs[1].reuse_id
    /\ hret.err = ReuseNegotiationFailed

====
